---- MODULE Spec2Model ----
(***************************************************************************)
(* Multi-agent control plane of codex-rs/core: the bounded group-chat log  *)
(* with per-subscriber cursors (state/session.rs), the per-subagent output *)
(* accumulators and the thread registry (thread_manager.rs), and the       *)
(* capability facade over them (agent/control.rs).                         *)
(*                                                                         *)
(* The size caps of the source (500 chat messages, 8000 characters, 200    *)
(* tool events) are scaled down to small values so that overflow is        *)
(* reached; every property is stated relative to the named cap.            *)
(***************************************************************************)
EXTENDS Integers, Sequences, FiniteSets, TLC

\* ------------------------------------------------------------------------
\* Caps (scaled) and bounds of the model
\* ------------------------------------------------------------------------

\* const MAX_GROUP_CHAT_MESSAGES: usize = 500 (scaled)
MAX_GROUP_CHAT_MESSAGES == 3

\* number of append calls explored
MaxAppends == 5

\* const MAX_SUBAGENT_OUTPUT_CHARS: usize = 8000 (scaled)
MAX_SUBAGENT_OUTPUT_CHARS == 2

\* const MAX_SUBAGENT_REASONING_CHARS: usize = 8000 (scaled)
MAX_SUBAGENT_REASONING_CHARS == 2

\* const MAX_SUBAGENT_TOOL_EVENTS: usize = 200 (scaled)
MAX_SUBAGENT_TOOL_EVENTS == 2

\* characters one delta carries at most
MaxDeltaChars == 3

\* operations one thread accepts through submit
MaxSubmitted == 2

\* characters pushed to one accumulator between two clears
MaxTotalChars == 3

\* const DEFAULT_WAIT_TIMEOUT_MS: i64 = 30_000 (scaled; one unit is one clock tick)
DEFAULT_WAIT_TIMEOUT_MS == 3

\* const MAX_WAIT_TIMEOUT_MS: i64 = 300_000 (scaled)
MAX_WAIT_TIMEOUT_MS == 4

\* sleep(Duration::from_millis(200)) between two polls (scaled)
POLL_INTERVAL_MS == 2

\* clock ticks explored
MaxClock == 5

\* messages one drain task records and posts within one turn
MaxTurnPosts == 2

\* tool events pushed between two clears
MaxToolEventsPushed == 3

\* ------------------------------------------------------------------------
\* Helpers for Rust primitives
\* ------------------------------------------------------------------------

\* usize::saturating_sub
saturating_sub(a, b) == IF a >= b THEN a - b ELSE 0

\* usize::min
min(a, b) == IF a <= b THEN a ELSE b

\* Vec::drain(..n): removes the first n elements
drain(s, n) == SubSeq(s, n + 1, Len(s))

\* &v[start..]: panics when start > len (the panic is a value that is no
\* sequence of messages)
Panic == <<-1>>
slice_from(s, start) == IF start > Len(s) THEN Panic ELSE SubSeq(s, start + 1, Len(s))

\* the last n elements of s (all of s when it is shorter)
LastN(s, n) == IF Len(s) <= n THEN s ELSE SubSeq(s, Len(s) - n + 1, Len(s))

\* thread ids that read the group chat
Subscribers == {"s1", "s2"}

\* ------------------------------------------------------------------------
\* State
\* ------------------------------------------------------------------------
VARIABLES
    entries,    \* GroupChatState.entries: Vec<GroupChatMessageEvent>
    cursors,    \* GroupChatState.cursors: HashMap<ThreadId, usize>
    appended,   \* number of append calls so far; the k-th message is k
    op,         \* the last GroupChatState call: its arguments and result
    pc,         \* per subscriber: "idle", or "read" between a read and its mark_read
    pending,    \* per subscriber: the length its last unread_messages returned
    delivered,  \* per subscriber: the messages its unread_messages calls returned
    owed,       \* per subscriber: the messages appended while it had < cap unread
    output,         \* one SubagentOutput
    full_partial,   \* the characters pushed to output.partial since it was cleared
    full_reasoning, \* the characters pushed to output.reasoning since it was cleared
    full_events,    \* the tool events pushed since tool_events was cleared
    manager_alive,    \* Weak<ThreadManagerState>::upgrade succeeds
    minted,           \* the thread ids created so far (ids are never reused)
    threads,          \* ThreadManagerState.threads: the ids that have a handle
    subagents,        \* ThreadManagerState.subagents: id -> SubagentInfo
    subagent_outputs, \* ThreadManagerState.subagent_outputs: id -> SubagentOutput
    submitted,        \* per thread id: the operations its submit accepted
    prompt_call,      \* the send_prompt call in flight, between its two awaits
    touched,          \* per id: an output mutator ran since the last reset
    reg_op,           \* the last registry or control step and its result
    status,           \* per thread id: the thread's own AgentStatus
    ever_registered,  \* every <<parent, child>> pair register_subagent was called with
    registered_now,   \* per id: the parent of its latest registration not yet removed
    spawn_call,       \* the spawn_agent call in flight
    drains,           \* the ids whose headless drain task has been started
    drain_task,       \* per id: the position and locals of its headless drain task
    tool_call,        \* the collab tool call in flight (close_agent, wait)
    now               \* the clock, in units of 100 ms

chatVars == <<entries, cursors, appended, op>>

deliveryVars == <<pc, pending, delivered, owed>>

outVars == <<output, full_partial, full_reasoning, full_events>>

ctlVars == <<status, ever_registered, registered_now, spawn_call, drains, drain_task,
             tool_call, now>>

regVars == <<manager_alive, minted, threads, subagents, subagent_outputs,
             submitted, prompt_call, touched, reg_op,
             status, ever_registered, registered_now, spawn_call, drains, drain_task,
             tool_call, now>>

vars == <<entries, cursors, appended, op, pc, pending, delivered, owed,
          output, full_partial, full_reasoning, full_events,
          manager_alive, minted, threads, subagents, subagent_outputs,
          submitted, prompt_call, touched, reg_op,
          status, ever_registered, registered_now, spawn_call, drains, drain_task,
          tool_call, now>>

\* ------------------------------------------------------------------------
\* Strings: a Rust String is a sequence of UTF-8 bytes. A byte is <<c, k>>,
\* the k-th byte of character c; "a" takes one byte and "U" takes two.
\* ------------------------------------------------------------------------
Chars == {"a", "U"}

len_utf8(c) == IF c = "a" THEN 1 ELSE 2

bytes_of(c) == [k \in 1 .. len_utf8(c) |-> <<c, k>>]

RECURSIVE utf8(_)
\* the String holding the characters cs
utf8(cs) == IF cs = << >> THEN << >> ELSE bytes_of(Head(cs)) \o utf8(Tail(cs))

is_char_boundary(b) == b[2] = 1

\* str::chars: the characters of a String, one per leading byte
chars(value) ==
    LET leads == SelectSeq(value, is_char_boundary)
    IN  [i \in 1 .. Len(leads) |-> leads[i][1]]

\* str::chars().count()
chars_count(value) == Len(SelectSeq(value, is_char_boundary))

\* Option
None == << >>
Some(x) == <<x>>

\* str::char_indices().nth(n).map(|(idx, _)| idx): the byte offset of the
\* n-th character (0-based), None when there are not that many
char_indices_nth(value, n) ==
    LET at == {i \in 1 .. Len(value) :
                 /\ is_char_boundary(value[i])
                 /\ chars_count(SubSeq(value, 1, i - 1)) = n}
    IN  IF at = {} THEN None ELSE Some((CHOOSE i \in at : TRUE) - 1)

\* Option::unwrap_or
unwrap_or(o, d) == IF o = None THEN d ELSE o[1]

\* String::push_str
push_str(value, delta) == value \o delta

\* the character sequences of at most n characters
CharSeqs(n) == UNION {[1 .. k -> Chars] : k \in 0 .. n}

\* ------------------------------------------------------------------------
\* GroupChatState (state/session.rs)
\* ------------------------------------------------------------------------

\* mutants of append_result
append_result_no_evict(es, cs, message) ==
    LET pushed == Append(es, message)
    IN  [entries |-> pushed, cursors |-> cs, ret |-> Len(pushed)]

append_result_drop_newest(es, cs, message) ==
    LET pushed == Append(es, message)
    IN  IF Len(pushed) > MAX_GROUP_CHAT_MESSAGES
        THEN LET overflow == saturating_sub(Len(pushed), MAX_GROUP_CHAT_MESSAGES)
             IN  [entries |-> SubSeq(pushed, 1, Len(pushed) - overflow),
                  cursors |-> [s \in DOMAIN cs |-> saturating_sub(cs[s], overflow)],
                  ret     |-> Len(pushed) - overflow]
        ELSE [entries |-> pushed, cursors |-> cs, ret |-> Len(pushed)]

append_result_keep_cursors(es, cs, message) ==
    LET pushed == Append(es, message)
    IN  IF Len(pushed) > MAX_GROUP_CHAT_MESSAGES
        THEN LET overflow == saturating_sub(Len(pushed), MAX_GROUP_CHAT_MESSAGES)
             IN  [entries |-> drain(pushed, overflow),
                  cursors |-> cs,
                  ret     |-> Len(drain(pushed, overflow))]
        ELSE [entries |-> pushed, cursors |-> cs, ret |-> Len(pushed)]

\* GroupChatState::append: the new entries, the new cursors, the returned length
append_result(es, cs, message) ==
    LET pushed == Append(es, message)
    IN  IF Len(pushed) > MAX_GROUP_CHAT_MESSAGES
        THEN LET overflow == saturating_sub(Len(pushed), MAX_GROUP_CHAT_MESSAGES)
                 drained  == drain(pushed, overflow)
             IN  [entries |-> drained,
                  cursors |-> [s \in DOMAIN cs |-> saturating_sub(cs[s], overflow)],
                  ret     |-> Len(drained)]
        ELSE [entries |-> pushed, cursors |-> cs, ret |-> Len(pushed)]

\* mutants of unread_result
unread_result_no_clamp(es, cs, subagent_id) ==
    LET start == IF subagent_id \in DOMAIN cs THEN cs[subagent_id] ELSE 0
    IN  <<Len(es), slice_from(es, start)>>

\* GroupChatState::unread_messages: (entries.len(), entries[start..])
unread_result(es, cs, subagent_id) ==
    LET start0 == IF subagent_id \in DOMAIN cs THEN cs[subagent_id] ELSE 0
        start  == min(start0, Len(es))
    IN  <<Len(es), slice_from(es, start)>>

\* mutant of mark_read_result: the acknowledgment resets every cursor
mark_read_result_all(cs, subagent_id, cursor) ==
    [s \in DOMAIN cs \cup {subagent_id} |-> cursor]

\* GroupChatState::mark_read: HashMap::insert(subagent_id, cursor)
mark_read_result(cs, subagent_id, cursor) ==
    [s \in DOMAIN cs \cup {subagent_id} |->
        IF s = subagent_id THEN cursor ELSE cs[s]]

NoOp == [name |-> "new", sub |-> "none", arg |-> 0, ret |-> <<0, <<>>>>, seq |-> 0]

\* ------------------------------------------------------------------------
\* SubagentOutput (thread_manager.rs)
\* ------------------------------------------------------------------------

\* mutants of trim_to_max_chars
\* counts bytes (value.len()) where the code counts characters
trim_to_max_chars_bytes(value, max_chars) ==
    LET total == Len(value)
    IN  IF total <= max_chars THEN value
        ELSE LET trim_chars == saturating_sub(total, max_chars)
                 start == unwrap_or(char_indices_nth(value, trim_chars), 0)
             IN  drain(value, start)

\* keeps the oldest characters (String::truncate at the character boundary)
trim_to_max_chars_keep_oldest(value, max_chars) ==
    LET total == chars_count(value)
    IN  IF total <= max_chars THEN value
        ELSE LET start == unwrap_or(char_indices_nth(value, max_chars), 0)
             IN  SubSeq(value, 1, start)

\* fn trim_to_max_chars(value: &mut String, max_chars: usize)
trim_to_max_chars(value, max_chars) ==
    LET total == chars_count(value)
    IN  IF total <= max_chars THEN value
        ELSE LET trim_chars == saturating_sub(total, max_chars)
                 start == unwrap_or(char_indices_nth(value, trim_chars), 0)
             IN  drain(value, start)

\* SubagentOutput::default
SubagentOutput_default ==
    [partial |-> << >>, last_message |-> None, reasoning |-> << >>,
     tool_events |-> << >>]

\* SubagentOutput::push_delta
push_delta(o, delta) ==
    [o EXCEPT !.partial =
        trim_to_max_chars(push_str(o.partial, delta), MAX_SUBAGENT_OUTPUT_CHARS)]

\* SubagentOutput::push_reasoning_delta
push_reasoning_delta(o, delta) ==
    [o EXCEPT !.reasoning =
        trim_to_max_chars(push_str(o.reasoning, delta), MAX_SUBAGENT_REASONING_CHARS)]

\* mutant of push_tool_event: evicts the newest events
push_tool_event_drop_newest(o, event) ==
    LET pushed == Append(o.tool_events, event)
    IN  IF Len(pushed) > MAX_SUBAGENT_TOOL_EVENTS
        THEN [o EXCEPT !.tool_events = SubSeq(pushed, 1, MAX_SUBAGENT_TOOL_EVENTS)]
        ELSE [o EXCEPT !.tool_events = pushed]

\* SubagentOutput::push_tool_event
push_tool_event(o, event) ==
    LET pushed == Append(o.tool_events, event)
    IN  IF Len(pushed) > MAX_SUBAGENT_TOOL_EVENTS
        THEN LET overflow == saturating_sub(Len(pushed), MAX_SUBAGENT_TOOL_EVENTS)
             IN  [o EXCEPT !.tool_events = drain(pushed, overflow)]
        ELSE [o EXCEPT !.tool_events = pushed]

\* mutant of set_message: keeps the streamed partial text
set_message_keep_partial(o, message) ==
    [o EXCEPT !.last_message = Some(message)]

\* SubagentOutput::set_message
set_message(o, message) ==
    [o EXCEPT !.last_message = Some(message), !.partial = << >>]

\* SubagentOutput::reset_for_prompt
reset_for_prompt(o) ==
    [o EXCEPT !.partial = << >>, !.reasoning = << >>, !.tool_events = << >>]

DeliveryIdle ==
    /\ pc = [s \in Subscribers |-> "idle"]
    /\ pending = [s \in Subscribers |-> 0]
    /\ delivered = [s \in Subscribers |-> {}]
    /\ owed = [s \in Subscribers |-> {}]

\* a SubagentOutput as register_subagent creates it
OutputFresh ==
    /\ output = SubagentOutput_default
    /\ full_partial = << >>
    /\ full_reasoning = << >>
    /\ full_events = << >>

\* every thread id of the model
ThreadIds == {"o1", "o2", "a1", "a2"}

NoCall == [pc |-> "idle", id |-> "none"]

NoRegOp == [name |-> "new", id |-> "none", arg |-> None, res |-> "ok"]

NoSpawnCall == [pc |-> "idle", parent |-> "none", id |-> "none",
                persona |-> None, headless |-> FALSE]

NoToolCall == [pc |-> "idle", name |-> "none", caller |-> "none", id |-> "none",
               timeout_ms |-> None, deadline |-> 0, wake |-> 0, last |-> "none",
               late |-> FALSE, polls |-> 0]

\* no drain task was spawned for the id: the task's position, its local
\* saw_message_item_completed, the message and SubagentInfo it is working on,
\* whether next_event failed, and which message-bearing events it pulled in
\* the current turn with how many times it called
\* record_and_post_subagent_message for them
NoDrainTask == [pc |-> "none", saw_message_item_completed |-> FALSE,
                message |-> None, info |-> None, failed |-> FALSE,
                turn_kinds |-> {}, turn_posts |-> 0]

\* ThreadManager::new: three empty maps
RegistryNew ==
    /\ manager_alive = TRUE
    /\ minted = {}
    /\ threads = {}
    /\ subagents = [i \in {} |-> 0]
    /\ subagent_outputs = [i \in {} |-> 0]
    /\ submitted = [i \in ThreadIds |-> << >>]
    /\ prompt_call = NoCall
    /\ touched = [i \in ThreadIds |-> FALSE]
    /\ reg_op = NoRegOp
    /\ status = [i \in ThreadIds |-> "PendingInit"]
    /\ ever_registered = {}
    /\ registered_now = [i \in ThreadIds |-> "none"]
    /\ spawn_call = NoSpawnCall
    /\ drains = {}
    /\ drain_task = [i \in ThreadIds |-> NoDrainTask]
    /\ tool_call = NoToolCall
    /\ now = 0

\* GroupChatState::new
ChatInit ==
    /\ entries = << >>
    /\ cursors = [s \in {} |-> 0]
    /\ appended = 0
    /\ op = NoOp
    /\ DeliveryIdle
    /\ OutputFresh
    /\ RegistryNew

append ==
    /\ appended < MaxAppends
    /\ LET message == appended + 1
           r == append_result(entries, cursors, message)
       IN  /\ entries' = r.entries
           /\ cursors' = r.cursors
           /\ op' = [name |-> "append", sub |-> "none", arg |-> message,
                     ret |-> <<r.ret, <<>>>>, seq |-> 1 - op.seq]
    /\ appended' = appended + 1
    /\ UNCHANGED <<deliveryVars, outVars, regVars>>

unread_messages(subagent_id) ==
    /\ op' = [name |-> "unread_messages", sub |-> subagent_id, arg |-> 0,
              ret |-> unread_result(entries, cursors, subagent_id),
              seq |-> 1 - op.seq]
    /\ UNCHANGED <<entries, cursors, appended>>
    /\ UNCHANGED <<deliveryVars, outVars, regVars>>

mark_read(subagent_id, cursor) ==
    /\ cursors' = mark_read_result(cursors, subagent_id, cursor)
    /\ op' = [name |-> "mark_read", sub |-> subagent_id, arg |-> cursor,
              ret |-> <<0, <<>>>>, seq |-> 1 - op.seq]
    /\ UNCHANGED <<entries, appended>>
    /\ UNCHANGED <<deliveryVars, outVars, regVars>>

\* cursors a caller may pass: any index up to one past the cap
CursorArgs == 0 .. (MAX_GROUP_CHAT_MESSAGES + 1)

ChatNext ==
    \/ append
    \/ \E s \in Subscribers : unread_messages(s)
    \/ \E s \in Subscribers : \E c \in CursorArgs : mark_read(s, c)

ChatSpec == ChatInit /\ [][ChatNext]_vars

\* a real (non-stuttering) GroupChatState call of the given name
Called(name) == op'.name = name /\ op'.seq # op.seq

\* the cursor unread_messages uses for s: an absent cursor is 0
CursorOf(cs, s) == IF s \in DOMAIN cs THEN cs[s] ELSE 0

\* the messages from index c (0-based) to the end, c clamped to the length
UnreadFrom(es, c) == SubSeq(es, (IF c > Len(es) THEN Len(es) ELSE c) + 1, Len(es))

\* C1: after any sequence of append, unread_messages and mark_read calls from
\* an empty log, at most MAX_GROUP_CHAT_MESSAGES entries are stored, and
\* append returns the length after eviction.
C1_EntriesBounded ==
    /\ Len(entries) <= MAX_GROUP_CHAT_MESSAGES
    /\ (op.name = "append" => op.ret[1] = Len(entries))

\* an append that evicted: the log is full and its first message is gone
C1_Witness ==
    /\ op.name = "append"
    /\ Len(entries) = MAX_GROUP_CHAT_MESSAGES
    /\ entries[1] > 1

\* C2: an append that overflows removes exactly the oldest excess entries (the
\* newest MAX_GROUP_CHAT_MESSAGES stay, in append order) and every stored
\* cursor c becomes max(c - overflow, 0); an append that does not overflow
\* leaves every cursor unchanged.
C2_EvictOldestShiftCursors ==
    [][Called("append") =>
        LET pushed   == Append(entries, op'.arg)
            overflow == IF Len(pushed) > MAX_GROUP_CHAT_MESSAGES
                        THEN Len(pushed) - MAX_GROUP_CHAT_MESSAGES ELSE 0
        IN  /\ entries' = LastN(pushed, MAX_GROUP_CHAT_MESSAGES)
            /\ DOMAIN cursors' = DOMAIN cursors
            /\ \A s \in DOMAIN cursors :
                   cursors'[s] = IF cursors[s] - overflow > 0
                                 THEN cursors[s] - overflow ELSE 0
            /\ (overflow = 0 => cursors' = cursors)]_vars

\* an evicting append with one cursor shifted and one saturated at zero
C2_Witness ==
    /\ op.name = "append"
    /\ entries[1] > 1
    /\ \E s, t \in DOMAIN cursors : cursors[s] > 0 /\ cursors[t] = 0

\* C3: at every evicting append and for every subscriber, the cursor does not
\* grow; the unread count (length minus cursor, taken after the push and
\* after the eviction) is preserved exactly when the cursor was at least the
\* number evicted, and then the unread messages are the same messages.
C3_EvictionPreservesUnread ==
    [][Called("append") /\ Len(entries) + 1 > Len(entries') =>
        LET pushed  == Append(entries, op'.arg)
            evicted == Len(pushed) - Len(entries')
        IN  \A s \in Subscribers :
                LET c  == CursorOf(cursors, s)
                    c2 == CursorOf(cursors', s)
                IN  /\ c2 <= c
                    /\ (Len(pushed) - c = Len(entries') - c2) <=> (c >= evicted)
                    /\ (c >= evicted =>
                           UnreadFrom(entries', c2) = UnreadFrom(pushed, c))]_vars

\* an evicting append with a subscriber whose unread window was not cut
C3_Witness ==
    /\ op.name = "append"
    /\ entries[1] > 1
    /\ \E s \in DOMAIN cursors :
          cursors[s] > 0 /\ cursors[s] < Len(entries)

\* C4: unread_messages(subscriber) returns the log length and the entries
\* from the subscriber's cursor to the end in append order, an absent cursor
\* counting as 0 and a cursor beyond the length as the length; it changes
\* neither the entries nor any cursor.
C4_UnreadIsSuffixAndPure ==
    [][Called("unread_messages") =>
        /\ op'.ret = <<Len(entries),
                       UnreadFrom(entries, CursorOf(cursors, op'.sub))>>
        /\ entries' = entries
        /\ cursors' = cursors]_vars

\* a read through a cursor that lies beyond the end of a non-empty log
C4_Witness ==
    /\ op.name = "unread_messages"
    /\ op.sub \in DOMAIN cursors
    /\ cursors[op.sub] > Len(entries)
    /\ Len(entries) > 0
    /\ op.ret = <<Len(entries), << >> >>

\* C5: mark_read(subscriber, cursor) sets only that subscriber's cursor to the
\* given value and leaves the entries and the other cursors alone; two reads
\* of one subscriber with nothing in between return the same messages.
C5_MarkReadOnlyOwnCursor ==
    [][/\ Called("mark_read") =>
            /\ entries' = entries
            /\ DOMAIN cursors' = DOMAIN cursors \cup {op'.sub}
            /\ cursors'[op'.sub] = op'.arg
            /\ \A s \in DOMAIN cursors \ {op'.sub} : cursors'[s] = cursors[s]
       /\ (Called("unread_messages") /\ op.name = "unread_messages"
              /\ op'.sub = op.sub) => op'.ret = op.ret]_vars

\* a mark_read while another subscriber holds a different cursor
C5_Witness ==
    /\ op.name = "mark_read"
    /\ \E s \in DOMAIN cursors \ {op.sub} : cursors[s] # op.arg

\* ------------------------------------------------------------------------
\* Chat delivery: subscribers that read, then acknowledge the length read
\* ------------------------------------------------------------------------

\* the messages of a sequence
Range(s) == {s[i] : i \in 1 .. Len(s)}

\* an append by some agent, interleaved anywhere
chat_append ==
    /\ appended < MaxAppends
    /\ LET message == appended + 1
           r == append_result(entries, cursors, message)
       IN  /\ entries' = r.entries
           /\ cursors' = r.cursors
           /\ op' = [name |-> "append", sub |-> "none", arg |-> message,
                     ret |-> <<r.ret, << >> >>, seq |-> 1 - op.seq]
           /\ owed' = [s \in Subscribers |->
                         IF Len(unread_result(entries, cursors, s)[2])
                                < MAX_GROUP_CHAT_MESSAGES
                         THEN owed[s] \cup {message} ELSE owed[s]]
    /\ appended' = appended + 1
    /\ UNCHANGED <<pc, pending, delivered>>
    /\ UNCHANGED <<outVars, regVars>>

\* the subscriber calls unread_messages and keeps the returned length
subscriber_read(s) ==
    /\ pc[s] = "idle"
    /\ LET r == unread_result(entries, cursors, s)
       IN  /\ op' = [name |-> "unread_messages", sub |-> s, arg |-> 0,
                     ret |-> r, seq |-> 1 - op.seq]
           /\ pending' = [pending EXCEPT ![s] = r[1]]
           /\ delivered' = [delivered EXCEPT ![s] = @ \cup Range(r[2])]
    /\ pc' = [pc EXCEPT ![s] = "read"]
    /\ UNCHANGED <<entries, cursors, appended, owed>>
    /\ UNCHANGED <<outVars, regVars>>

\* the subscriber acknowledges with the length that read returned
subscriber_mark_read(s) ==
    /\ pc[s] = "read"
    /\ cursors' = mark_read_result(cursors, s, pending[s])
    /\ op' = [name |-> "mark_read", sub |-> s, arg |-> pending[s],
              ret |-> <<0, << >> >>, seq |-> 1 - op.seq]
    /\ pc' = [pc EXCEPT ![s] = "idle"]
    /\ UNCHANGED <<entries, appended, pending, delivered, owed>>
    /\ UNCHANGED <<outVars, regVars>>

DeliveryNext ==
    \/ chat_append
    \/ \E s \in Subscribers : subscriber_read(s)
    \/ \E s \in Subscribers : subscriber_mark_read(s)

DeliverySpec == ChatInit /\ [][DeliveryNext]_vars

\* C6: chat delivery is at-least-once for a subscriber that reads and then
\* acknowledges the length read, with appends interleaved anywhere: no
\* message appended while the subscriber had fewer than
\* MAX_GROUP_CHAT_MESSAGES unread is skipped, that is, such a message that is
\* still stored and was never returned to the subscriber lies at or after the
\* subscriber's cursor.
C6_NoMessageSkipped ==
    \A s \in Subscribers :
        \A i \in 1 .. Len(entries) :
            (entries[i] \in owed[s] \ delivered[s]) => i > CursorOf(cursors, s)

\* ------------------------------------------------------------------------
\* One SubagentOutput under every sequence of its mutators
\* ------------------------------------------------------------------------

\* the deltas an event may carry
Deltas == {utf8(cs) : cs \in CharSeqs(MaxDeltaChars)}

\* finalized messages
Messages == {utf8(<<"a">>), utf8(<<"U", "a">>)}

\* formatted tool-event lines
ToolEventLines == {"exec begin: ls", "exec end: ls (exit 0)"}

OutInit ==
    /\ entries = << >>
    /\ cursors = [s \in {} |-> 0]
    /\ appended = 0
    /\ op = NoOp
    /\ DeliveryIdle
    /\ OutputFresh
    /\ RegistryNew

call_push_delta(delta) ==
    /\ Len(full_partial) + chars_count(delta) <= MaxTotalChars
    /\ output' = push_delta(output, delta)
    /\ full_partial' = full_partial \o chars(delta)
    /\ UNCHANGED <<full_reasoning, full_events, chatVars, deliveryVars, regVars>>

call_push_reasoning_delta(delta) ==
    /\ Len(full_reasoning) + chars_count(delta) <= MaxTotalChars
    /\ output' = push_reasoning_delta(output, delta)
    /\ full_reasoning' = full_reasoning \o chars(delta)
    /\ UNCHANGED <<full_partial, full_events, chatVars, deliveryVars, regVars>>

call_push_tool_event(event) ==
    /\ Len(full_events) < MaxToolEventsPushed
    /\ output' = push_tool_event(output, event)
    /\ full_events' = Append(full_events, event)
    /\ UNCHANGED <<full_partial, full_reasoning, chatVars, deliveryVars, regVars>>

call_set_message(message) ==
    /\ output' = set_message(output, message)
    /\ full_partial' = << >>
    /\ UNCHANGED <<full_reasoning, full_events, chatVars, deliveryVars, regVars>>

call_reset_for_prompt ==
    /\ output' = reset_for_prompt(output)
    /\ full_partial' = << >>
    /\ full_reasoning' = << >>
    /\ full_events' = << >>
    /\ UNCHANGED <<chatVars, deliveryVars, regVars>>

OutNext ==
    \/ \E d \in Deltas : call_push_delta(d)
    \/ \E d \in Deltas : call_push_reasoning_delta(d)
    \/ \E e \in ToolEventLines : call_push_tool_event(e)
    \/ \E m \in Messages : call_set_message(m)
    \/ call_reset_for_prompt

OutSpec == OutInit /\ [][OutNext]_vars

\* C7: for every sequence of deltas pushed to partial or reasoning, the
\* accumulator never holds more characters than its cap and holds exactly
\* the last min(cap, total) characters of the concatenation of the deltas
\* pushed since it was last cleared, as whole characters.
C7_AccumulatorIsCappedSuffix ==
    /\ chars_count(output.partial) <= MAX_SUBAGENT_OUTPUT_CHARS
    /\ output.partial = utf8(LastN(full_partial, MAX_SUBAGENT_OUTPUT_CHARS))
    /\ chars_count(output.reasoning) <= MAX_SUBAGENT_REASONING_CHARS
    /\ output.reasoning = utf8(LastN(full_reasoning, MAX_SUBAGENT_REASONING_CHARS))

\* both accumulators overflowed and dropped a two-byte character
C7_Witness ==
    /\ Len(full_partial) > MAX_SUBAGENT_OUTPUT_CHARS
    /\ full_partial[1] = "U"
    /\ Len(full_reasoning) > MAX_SUBAGENT_REASONING_CHARS
    /\ full_reasoning[1] = "U"
    /\ chars_count(output.partial) = MAX_SUBAGENT_OUTPUT_CHARS

\* C8: after any sequence of push_tool_event calls, tool_events holds at most
\* MAX_SUBAGENT_TOOL_EVENTS events, the most recent ones in arrival order.
C8_ToolEventsNewestKept ==
    /\ Len(output.tool_events) <= MAX_SUBAGENT_TOOL_EVENTS
    /\ output.tool_events = LastN(full_events, MAX_SUBAGENT_TOOL_EVENTS)

\* more events pushed than the cap holds, the dropped one unlike the rest
C8_Witness ==
    /\ Len(full_events) > MAX_SUBAGENT_TOOL_EVENTS
    /\ full_events[1] # full_events[Len(full_events)]
    /\ Len(output.tool_events) = MAX_SUBAGENT_TOOL_EVENTS

\* ------------------------------------------------------------------------
\* Thread registry (thread_manager.rs) and AgentControl (agent/control.rs)
\* ------------------------------------------------------------------------

\* HashMap::insert
map_insert(m, k, v) == [x \in DOMAIN m \cup {k} |-> IF x = k THEN v ELSE m[x]]

\* mutant of map_remove: the map is cleared
map_remove_clear(m, k) == [x \in {} |-> 0]

\* HashMap::remove
map_remove(m, k) == [x \in DOMAIN m \ {k} |-> m[x]]

\* mutant of map_or_insert: the entry is replaced when the key is there
map_or_insert_overwrite(m, k, v) == map_insert(m, k, v)

\* HashMap::entry(k).or_insert_with(default)
map_or_insert(m, k, v) == IF k \in DOMAIN m THEN m ELSE map_insert(m, k, v)

\* ThreadManagerState::record_subagent_delta
record_subagent_delta_result(outs, subagent_id, delta) ==
    IF subagent_id \in DOMAIN outs
    THEN [outs EXCEPT ![subagent_id] = push_delta(@, delta)]
    ELSE outs

\* ThreadManagerState::record_subagent_reasoning_delta
record_subagent_reasoning_delta_result(outs, subagent_id, delta) ==
    IF subagent_id \in DOMAIN outs
    THEN [outs EXCEPT ![subagent_id] = push_reasoning_delta(@, delta)]
    ELSE outs

\* ThreadManagerState::record_subagent_tool_event
record_subagent_tool_event_result(outs, subagent_id, event) ==
    IF subagent_id \in DOMAIN outs
    THEN [outs EXCEPT ![subagent_id] = push_tool_event(@, event)]
    ELSE outs

\* mutant of record_subagent_message_result: a missing buffer is created
\* for the message
record_subagent_message_result_insert(outs, subagent_id, message) ==
    map_insert(outs, subagent_id,
               set_message(IF subagent_id \in DOMAIN outs THEN outs[subagent_id]
                           ELSE SubagentOutput_default, message))

\* ThreadManagerState::record_subagent_message
record_subagent_message_result(outs, subagent_id, message) ==
    IF subagent_id \in DOMAIN outs
    THEN [outs EXCEPT ![subagent_id] = set_message(@, message)]
    ELSE outs

\* ThreadManagerState::reset_subagent_output
reset_subagent_output_result(outs, subagent_id) ==
    IF subagent_id \in DOMAIN outs
    THEN [outs EXCEPT ![subagent_id] = reset_for_prompt(@)]
    ELSE outs

\* mutant of upgrade: a dangling reference is taken for a live registry
upgrade_always_ok(alive) == "ok"

\* AgentControl::upgrade: Weak::upgrade, or UnsupportedOperation("thread
\* manager dropped")
upgrade(alive) == IF alive THEN "ok" ELSE "UnsupportedOperation"

\* ThreadManagerState::send_op: get_thread(thread_id)?.submit(op); accept is
\* the thread's own answer to submit
send_op_result(ths, thread_id, accept) ==
    IF thread_id \notin ths THEN "ThreadNotFound"
    ELSE IF accept THEN "ok" ELSE "SubmitError"

RegOp(name, id, arg, res) == [name |-> name, id |-> id, arg |-> arg, res |-> res]

\* ThreadManagerState::finalize_thread_spawn, the successful path: a thread
\* with a fresh id is inserted into the thread map
spawn_thread(thread_id) ==
    /\ manager_alive
    /\ thread_id \notin minted
    /\ minted' = minted \cup {thread_id}
    /\ threads' = threads \cup {thread_id}
    /\ reg_op' = RegOp("spawn_thread", thread_id, None, "ok")
    /\ UNCHANGED <<manager_alive, subagents, subagent_outputs, submitted,
                   prompt_call, touched>>
    /\ UNCHANGED <<chatVars, deliveryVars, outVars, ctlVars>>

\* ThreadManagerState::register_subagent
register_subagent(parent_id, subagent_id, persona) ==
    /\ manager_alive
    /\ subagent_id \in minted
    /\ subagents' = map_insert(subagents, subagent_id,
                               [parent_id |-> parent_id, persona |-> persona])
    /\ subagent_outputs' =
           map_or_insert(subagent_outputs, subagent_id, SubagentOutput_default)
    /\ reg_op' = RegOp("register_subagent", subagent_id, parent_id, "ok")
    /\ ever_registered' = ever_registered \cup {<<parent_id, subagent_id>>}
    /\ registered_now' = [registered_now EXCEPT ![subagent_id] = parent_id]
    /\ UNCHANGED <<manager_alive, minted, threads, submitted, prompt_call, touched>>
    /\ UNCHANGED <<status, spawn_call, drains, drain_task, tool_call, now>>
    /\ UNCHANGED <<chatVars, deliveryVars, outVars>>

\* ThreadManagerState::remove_thread: unregister_subagent, then threads.remove
remove_thread(thread_id) ==
    /\ manager_alive
    /\ subagents' = map_remove(subagents, thread_id)
    /\ subagent_outputs' = map_remove(subagent_outputs, thread_id)
    /\ threads' = threads \ {thread_id}
    /\ reg_op' = RegOp("remove_thread", thread_id, None,
                       IF thread_id \in threads THEN "some" ELSE "none")
    /\ registered_now' = [registered_now EXCEPT ![thread_id] = "none"]
    /\ UNCHANGED <<manager_alive, minted, submitted, prompt_call, touched>>
    /\ UNCHANGED <<status, ever_registered, spawn_call, drains, drain_task, tool_call, now>>
    /\ UNCHANGED <<chatVars, deliveryVars, outVars>>

\* the drain task folds a streamed delta into the buffer
record_subagent_delta(subagent_id, delta) ==
    /\ manager_alive
    /\ subagent_outputs' =
           record_subagent_delta_result(subagent_outputs, subagent_id, delta)
    /\ touched' = [touched EXCEPT ![subagent_id] = TRUE]
    /\ reg_op' = RegOp("record_subagent_delta", subagent_id, Some(delta), "ok")
    /\ UNCHANGED <<manager_alive, minted, threads, subagents, submitted, prompt_call>>
    /\ UNCHANGED <<chatVars, deliveryVars, outVars, ctlVars>>

record_subagent_reasoning_delta(subagent_id, delta) ==
    /\ manager_alive
    /\ subagent_outputs' =
           record_subagent_reasoning_delta_result(subagent_outputs, subagent_id, delta)
    /\ touched' = [touched EXCEPT ![subagent_id] = TRUE]
    /\ reg_op' = RegOp("record_subagent_reasoning_delta", subagent_id,
                       Some(delta), "ok")
    /\ UNCHANGED <<manager_alive, minted, threads, subagents, submitted, prompt_call>>
    /\ UNCHANGED <<chatVars, deliveryVars, outVars, ctlVars>>

record_subagent_tool_event(subagent_id, event) ==
    /\ manager_alive
    /\ subagent_outputs' =
           record_subagent_tool_event_result(subagent_outputs, subagent_id, event)
    /\ touched' = [touched EXCEPT ![subagent_id] = TRUE]
    /\ reg_op' = RegOp("record_subagent_tool_event", subagent_id, Some(event), "ok")
    /\ UNCHANGED <<manager_alive, minted, threads, subagents, submitted, prompt_call>>
    /\ UNCHANGED <<chatVars, deliveryVars, outVars, ctlVars>>

record_subagent_message(subagent_id, message) ==
    /\ manager_alive
    /\ subagent_outputs' =
           record_subagent_message_result(subagent_outputs, subagent_id, message)
    /\ touched' = [touched EXCEPT ![subagent_id] = TRUE]
    /\ reg_op' = RegOp("record_subagent_message", subagent_id, Some(message), "ok")
    /\ UNCHANGED <<manager_alive, minted, threads, subagents, submitted, prompt_call>>
    /\ UNCHANGED <<chatVars, deliveryVars, outVars, ctlVars>>

\* AgentControl::send_prompt up to its first await: upgrade, then
\* reset_subagent_output
send_prompt_reset(agent_id) ==
    /\ prompt_call.pc = "idle"
    /\ Len(submitted[agent_id]) < MaxSubmitted
    /\ IF upgrade(manager_alive) = "ok"
       THEN /\ subagent_outputs' =
                   reset_subagent_output_result(subagent_outputs, agent_id)
            /\ touched' = [touched EXCEPT ![agent_id] = FALSE]
            /\ prompt_call' = [pc |-> "send_op", id |-> agent_id]
            /\ reg_op' = RegOp("reset_subagent_output", agent_id, None, "ok")
       ELSE /\ reg_op' = RegOp("send_prompt", agent_id, None, upgrade(manager_alive))
            /\ UNCHANGED <<subagent_outputs, touched, prompt_call>>
    /\ UNCHANGED <<manager_alive, minted, threads, subagents, submitted>>
    /\ UNCHANGED <<chatVars, deliveryVars, outVars, ctlVars>>

\* mutant of send_prompt_send_op: the output is reset once more after the
\* operation was submitted
send_prompt_send_op_then_reset(accept) ==
    /\ prompt_call.pc \in {"send_op", "late_reset"}
    /\ LET agent_id == prompt_call.id
           res == send_op_result(threads, agent_id, accept)
       IN  IF prompt_call.pc = "send_op"
           THEN /\ submitted' = IF res = "ok"
                                THEN [submitted EXCEPT ![agent_id] = Append(@, "UserInput")]
                                ELSE submitted
                /\ reg_op' = RegOp("send_op", agent_id, None, res)
                /\ prompt_call' = [prompt_call EXCEPT !.pc = "late_reset"]
                /\ UNCHANGED <<subagent_outputs, touched>>
           ELSE /\ subagent_outputs' =
                       reset_subagent_output_result(subagent_outputs, agent_id)
                /\ touched' = [touched EXCEPT ![agent_id] = FALSE]
                /\ reg_op' = RegOp("send_prompt", agent_id, None, "ok")
                /\ prompt_call' = NoCall
                /\ UNCHANGED submitted
    /\ UNCHANGED <<manager_alive, minted, threads, subagents>>
    /\ UNCHANGED <<chatVars, deliveryVars, outVars, ctlVars>>

\* AgentControl::send_prompt, its send_op: the result is what send_prompt returns
send_prompt_send_op(accept) ==
    /\ prompt_call.pc = "send_op"
    /\ LET agent_id == prompt_call.id
           res == send_op_result(threads, agent_id, accept)
       IN  /\ submitted' = IF res = "ok"
                           THEN [submitted EXCEPT ![agent_id] = Append(@, "UserInput")]
                           ELSE submitted
           /\ reg_op' = RegOp("send_prompt", agent_id, None, res)
    /\ prompt_call' = NoCall
    /\ UNCHANGED <<manager_alive, minted, threads, subagents, subagent_outputs, touched>>
    /\ UNCHANGED <<chatVars, deliveryVars, outVars, ctlVars>>

\* the last strong reference to ThreadManagerState goes away: its maps are freed
drop_manager ==
    /\ manager_alive
    /\ prompt_call.pc = "idle"
    /\ spawn_call.pc = "idle"
    /\ drains = {}
    /\ manager_alive' = FALSE
    /\ threads' = {}
    /\ subagents' = [i \in {} |-> 0]
    /\ subagent_outputs' = [i \in {} |-> 0]
    /\ reg_op' = RegOp("drop_manager", "none", None, "ok")
    /\ registered_now' = [i \in ThreadIds |-> "none"]
    /\ UNCHANGED <<minted, submitted, prompt_call, touched>>
    /\ UNCHANGED <<status, ever_registered, spawn_call, drains, drain_task, tool_call, now>>
    /\ UNCHANGED <<chatVars, deliveryVars, outVars>>

\* ------------------------------------------------------------------------
\* One subagent's buffer between prompts
\* ------------------------------------------------------------------------

\* the subagent whose buffer is followed, and the parents it may have
PromptAgents == {"a1"}
Parents == {"o1", "o2"}
Personas == {None, Some("Builder")}

\* the deltas and events the drain task folds in
PromptDeltas == {utf8(<<"U">>)}
PromptEvents == {"exec begin: ls"}

PromptInit ==
    /\ entries = << >>
    /\ cursors = [s \in {} |-> 0]
    /\ appended = 0
    /\ op = NoOp
    /\ DeliveryIdle
    /\ OutputFresh
    /\ RegistryNew

PromptNext ==
    \/ \E id \in PromptAgents : spawn_thread(id)
    \/ \E id \in PromptAgents : \E p \in Parents : \E persona \in Personas :
          register_subagent(p, id, persona)
    \/ \E id \in PromptAgents : remove_thread(id)
    \/ \E id \in PromptAgents : \E d \in PromptDeltas : record_subagent_delta(id, d)
    \/ \E id \in PromptAgents : \E d \in PromptDeltas :
          record_subagent_reasoning_delta(id, d)
    \/ \E id \in PromptAgents : \E e \in PromptEvents :
          record_subagent_tool_event(id, e)
    \/ \E id \in PromptAgents : \E m \in Messages : record_subagent_message(id, m)
    \/ \E id \in PromptAgents : send_prompt_reset(id)
    \/ \E accept \in BOOLEAN : send_prompt_send_op(accept)
    \/ drop_manager

PromptSpec == PromptInit /\ [][PromptNext]_vars

\* C9: recording a finalized message for a subagent that has a buffer sets
\* last_message to that message and clears partial, and leaves reasoning and
\* tool_events as they were.
C9_MessageSetsLastClearsPartial ==
    [][(reg_op'.name = "record_subagent_message"
          /\ reg_op'.id \in DOMAIN subagent_outputs) =>
        LET id == reg_op'.id
        IN  /\ id \in DOMAIN subagent_outputs'
            /\ subagent_outputs'[id].last_message = reg_op'.arg
            /\ subagent_outputs'[id].partial = << >>
            /\ subagent_outputs'[id].reasoning = subagent_outputs[id].reasoning
            /\ subagent_outputs'[id].tool_events = subagent_outputs[id].tool_events]_vars

\* a finalized message recorded over streamed text, reasoning and tool events
C9_Witness ==
    /\ reg_op.name = "record_subagent_message"
    /\ reg_op.id \in DOMAIN subagent_outputs
    /\ subagent_outputs[reg_op.id].last_message = reg_op.arg
    /\ subagent_outputs[reg_op.id].reasoning # << >>
    /\ subagent_outputs[reg_op.id].tool_events # << >>

\* C10: after send_prompt(id, text) for a registered subagent and before any
\* event is drained into its buffer, the buffer is empty: partial, reasoning
\* and tool_events are empty and last_message is absent.
C10_BufferEmptyAfterSendPrompt ==
    (/\ reg_op.name = "send_prompt"
     /\ reg_op.res = "ok"
     /\ reg_op.id \in DOMAIN subagents
     /\ reg_op.id \in DOMAIN subagent_outputs
     /\ ~touched[reg_op.id])
    => subagent_outputs[reg_op.id] = SubagentOutput_default

\* ------------------------------------------------------------------------
\* The registry: membership, lookup and removal (thread_manager.rs, control.rs)
\* ------------------------------------------------------------------------

\* mutant of is_subagent_of_result: any registered id is taken for a child
is_subagent_of_result_any_parent(subs, parent_id, subagent_id) ==
    subagent_id \in DOMAIN subs

\* ThreadManagerState::is_subagent_of
is_subagent_of_result(subs, parent_id, subagent_id) ==
    /\ subagent_id \in DOMAIN subs
    /\ subs[subagent_id].parent_id = parent_id

\* ThreadManagerState::get_thread
get_thread_result(ths, thread_id) ==
    IF thread_id \in ths THEN "ok" ELSE "ThreadNotFound"

\* mutant of trim_snapshot: the text is cut to its first max_chars characters
trim_snapshot_keep_oldest(value, max_chars) ==
    IF value = << >> THEN None
    ELSE LET total == chars_count(value)
         IN  IF total <= max_chars THEN Some(value)
             ELSE LET end == unwrap_or(char_indices_nth(value, max_chars), 0)
                  IN  Some(SubSeq(value, 1, end))

\* fn trim_snapshot(value: &str, max_chars: usize) -> Option<String>
trim_snapshot(value, max_chars) ==
    IF value = << >> THEN None
    ELSE LET total == chars_count(value)
         IN  IF total <= max_chars THEN Some(value)
             ELSE LET trim_chars == saturating_sub(total, max_chars)
                      start == unwrap_or(char_indices_nth(value, trim_chars), 0)
                  IN  Some(drain(value, start))

\* the text fields of SubagentOutput::snapshot: max_chars.and_then(trim_snapshot)
\* .or_else(non-empty text)
snapshot_text(value, max_chars) ==
    LET trimmed == IF max_chars = None THEN None
                   ELSE trim_snapshot(value, max_chars[1])
    IN  IF trimmed # None THEN trimmed
        ELSE IF value = << >> THEN None ELSE Some(value)

\* SubagentOutput::snapshot
snapshot(o, max_chars) ==
    [partial      |-> snapshot_text(o.partial, max_chars),
     last_message |-> o.last_message,
     reasoning    |-> snapshot_text(o.reasoning, max_chars),
     tool_events  |-> o.tool_events]

\* ThreadManagerState::subagent_output_snapshot
subagent_output_snapshot_result(outs, subagent_id, max_chars) ==
    IF subagent_id \in DOMAIN outs
    THEN Some(snapshot(outs[subagent_id], max_chars))
    ELSE None

\* a query leaves the registry, the threads and the calls in flight alone
QueryFrame ==
    /\ UNCHANGED <<manager_alive, minted, threads, subagents, subagent_outputs,
                   submitted, prompt_call, touched>>
    /\ UNCHANGED <<chatVars, deliveryVars, outVars, ctlVars>>

\* mutant of control_is_subagent_of: every id passes for a child
control_is_subagent_of_any(alive, subs, parent_id, subagent_id) ==
    IF upgrade(alive) # "ok" THEN upgrade(alive) ELSE "true"

\* AgentControl::is_subagent_of: Ok(bool), or the error of upgrade
control_is_subagent_of(alive, subs, parent_id, subagent_id) ==
    IF upgrade(alive) # "ok" THEN upgrade(alive)
    ELSE IF is_subagent_of_result(subs, parent_id, subagent_id)
    THEN "true" ELSE "false"

\* AgentControl::is_subagent_of
is_subagent_of(parent_id, subagent_id) ==
    /\ reg_op' = RegOp("is_subagent_of", subagent_id, parent_id,
                       control_is_subagent_of(manager_alive, subagents,
                                              parent_id, subagent_id))
    /\ QueryFrame

\* ThreadManagerState::get_thread, called on a live registry
get_thread(thread_id) ==
    /\ manager_alive
    /\ reg_op' = RegOp("get_thread", thread_id, None,
                       get_thread_result(threads, thread_id))
    /\ QueryFrame

\* ThreadManagerState::subagent_output_snapshot, called on a live registry
subagent_output_snapshot(subagent_id) ==
    /\ manager_alive
    /\ reg_op' = RegOp("subagent_output_snapshot", subagent_id,
                       subagent_output_snapshot_result(subagent_outputs,
                                                       subagent_id, None),
                       "ok")
    /\ QueryFrame

\* the subagents whose membership is followed
RegAgents == {"a1", "a2"}
RegPersonas == {Some("Builder")}

RegInit ==
    /\ entries = << >>
    /\ cursors = [s \in {} |-> 0]
    /\ appended = 0
    /\ op = NoOp
    /\ DeliveryIdle
    /\ OutputFresh
    /\ RegistryNew

RegNext ==
    \/ \E id \in RegAgents : spawn_thread(id)
    \/ \E id \in RegAgents : \E p \in Parents : \E persona \in RegPersonas :
          register_subagent(p, id, persona)
    \/ \E id \in RegAgents : remove_thread(id)
    \/ \E id \in RegAgents : \E m \in Messages : record_subagent_message(id, m)
    \/ \E id \in ThreadIds : \E p \in Parents : is_subagent_of(p, id)
    \/ \E id \in RegAgents : get_thread(id)
    \/ \E id \in RegAgents : subagent_output_snapshot(id)
    \/ drop_manager

RegSpec == RegInit /\ [][RegNext]_vars

\* C11: is_subagent_of(parent, child) answers true exactly when child's latest
\* registration not yet removed is under parent; it is true right after
\* register_subagent(parent, child, ..), and false for every pair that
\* register_subagent was never called with.
C11_IsSubagentOfExactlyRegistered ==
    [][/\ (reg_op'.name = "is_subagent_of" /\ reg_op'.res \in {"true", "false"}) =>
             (reg_op'.res = "true" <=> registered_now[reg_op'.id] = reg_op'.arg)
       /\ reg_op'.name = "register_subagent" =>
             is_subagent_of_result(subagents', reg_op'.arg, reg_op'.id)
       /\ \A p \in Parents : \A c \in ThreadIds :
             <<p, c>> \notin ever_registered' =>
                 ~is_subagent_of_result(subagents', p, c)]_vars

\* the child of one parent is asked about under another parent, after an
\* earlier child of that parent was removed
C11_Witness ==
    /\ reg_op.name = "is_subagent_of"
    /\ reg_op.res = "false"
    /\ reg_op.id \in DOMAIN subagents
    /\ registered_now[reg_op.id] \notin {"none", reg_op.arg}
    /\ \E c \in RegAgents : <<reg_op.arg, c>> \in ever_registered
                             /\ registered_now[c] = "none"

\* C19: remove(id) deletes id's SubagentInfo, SubagentOutput and thread-map
\* entry and returns the handle exactly when one was present; right afterwards
\* get(id) fails with ThreadNotFound, is_subagent_of(_, id) is false and id has
\* no snapshot; a second remove(id) returns none and changes nothing; the
\* entries of every other id are as they were.
C19_RemoveDeletesOnlyThatId ==
    [][reg_op'.name = "remove_thread" =>
        LET id == reg_op'.id
        IN  /\ reg_op'.res = (IF id \in threads THEN "some" ELSE "none")
            /\ get_thread_result(threads', id) = "ThreadNotFound"
            /\ \A p \in Parents : ~is_subagent_of_result(subagents', p, id)
            /\ subagent_output_snapshot_result(subagent_outputs', id, None) = None
            /\ threads' \ {id} = threads \ {id}
            /\ DOMAIN subagents' \ {id} = DOMAIN subagents \ {id}
            /\ DOMAIN subagent_outputs' \ {id} = DOMAIN subagent_outputs \ {id}
            /\ \A j \in DOMAIN subagents' : subagents'[j] = subagents[j]
            /\ \A j \in DOMAIN subagent_outputs' :
                  subagent_outputs'[j] = subagent_outputs[j]
            /\ (reg_op.name = "remove_thread" /\ reg_op.id = id) =>
                  /\ reg_op'.res = "none"
                  /\ UNCHANGED <<threads, subagents, subagent_outputs>>]_vars

\* a registered subagent with recorded output is removed while another
\* subagent stays registered with its own output
C19_Witness ==
    /\ reg_op.name = "remove_thread"
    /\ reg_op.res = "some"
    /\ <<"o1", reg_op.id>> \in ever_registered
    /\ touched[reg_op.id]
    /\ \E j \in DOMAIN subagent_outputs :
          j # reg_op.id /\ subagent_outputs[j].last_message # None

\* ------------------------------------------------------------------------
\* AgentControl: spawn, status, output and teardown (control.rs)
\* ------------------------------------------------------------------------

\* the id carried by the first event of a new thread (crate::codex)
INITIAL_SUBMIT_ID == "INITIAL_SUBMIT_ID"

Event(id, msg) == [id |-> id, msg |-> msg]

\* what a new thread may emit first
FirstEvents == {Event(INITIAL_SUBMIT_ID, "SessionConfigured"),
                Event("1", "SessionConfigured"),
                Event(INITIAL_SUBMIT_ID, "TurnStarted")}

\* mutant of finalize_thread_spawn_result: the handle is inserted before the
\* first event is examined
finalize_thread_spawn_result_insert_first(ths, thread_id, event) ==
    IF event.msg = "SessionConfigured" /\ event.id = INITIAL_SUBMIT_ID
    THEN [threads |-> ths \cup {thread_id}, res |-> "ok"]
    ELSE [threads |-> ths \cup {thread_id},
          res |-> "SessionConfiguredNotFirstEvent"]

\* ThreadManagerState::finalize_thread_spawn: the thread map after it, and
\* what it returns
finalize_thread_spawn_result(ths, thread_id, event) ==
    IF event.msg = "SessionConfigured" /\ event.id = INITIAL_SUBMIT_ID
    THEN [threads |-> ths \cup {thread_id}, res |-> "ok"]
    ELSE [threads |-> ths, res |-> "SessionConfiguredNotFirstEvent"]

\* mutant of get_status_result: the handle's status is reported whether or not
\* the registry still holds the thread
get_status_result_stale(alive, ths, st, agent_id) == st[agent_id]

\* AgentControl::get_status
get_status_result(alive, ths, st, agent_id) ==
    IF upgrade(alive) # "ok" THEN "NotFound"
    ELSE IF get_thread_result(ths, agent_id) # "ok" THEN "NotFound"
    ELSE st[agent_id]

\* AgentControl::spawn_agent up to the return of spawn_new_thread_with_source:
\* upgrade, Codex::spawn (spawned says whether it succeeds) and
\* finalize_thread_spawn on the thread's first event
spawn_agent_spawn(parent_id, thread_id, persona, headless, spawned, event) ==
    /\ spawn_call.pc = "idle"
    /\ thread_id \notin minted
    /\ IF upgrade(manager_alive) # "ok"
       THEN /\ reg_op' = RegOp("spawn_agent", "none", None, upgrade(manager_alive))
            /\ UNCHANGED <<minted, threads, spawn_call>>
       ELSE IF ~spawned
       THEN /\ reg_op' = RegOp("spawn_agent", "none", None, "SpawnError")
            /\ UNCHANGED <<minted, threads, spawn_call>>
       ELSE LET r == finalize_thread_spawn_result(threads, thread_id, event)
            IN  /\ minted' = minted \cup {thread_id}
                /\ threads' = r.threads
                /\ IF r.res = "ok"
                   THEN /\ spawn_call' = [pc |-> "register", parent |-> parent_id,
                                          id |-> thread_id, persona |-> persona,
                                          headless |-> headless]
                        /\ reg_op' = RegOp("spawn_new_thread", thread_id, event, "ok")
                   ELSE /\ spawn_call' = spawn_call
                        /\ reg_op' = RegOp("spawn_agent", thread_id, event, r.res)
    /\ UNCHANGED <<manager_alive, subagents, subagent_outputs, submitted,
                   prompt_call, touched>>
    /\ UNCHANGED <<status, ever_registered, registered_now, drains, drain_task, tool_call, now>>
    /\ UNCHANGED <<chatVars, deliveryVars, outVars>>

\* AgentControl::spawn_agent: register_subagent(parent_id, new id, persona)
spawn_agent_register ==
    /\ spawn_call.pc = "register"
    /\ subagents' = map_insert(subagents, spawn_call.id,
                               [parent_id |-> spawn_call.parent,
                                persona |-> spawn_call.persona])
    /\ subagent_outputs' =
           map_or_insert(subagent_outputs, spawn_call.id, SubagentOutput_default)
    /\ ever_registered' = ever_registered \cup {<<spawn_call.parent, spawn_call.id>>}
    /\ registered_now' = [registered_now EXCEPT ![spawn_call.id] = spawn_call.parent]
    /\ spawn_call' = [spawn_call EXCEPT
                        !.pc = IF spawn_call.headless THEN "drain" ELSE "send_prompt"]
    /\ reg_op' = RegOp("register_subagent", spawn_call.id, spawn_call.parent, "ok")
    /\ UNCHANGED <<manager_alive, minted, threads, submitted, prompt_call, touched>>
    /\ UNCHANGED <<status, drains, drain_task, tool_call, now>>
    /\ UNCHANGED <<chatVars, deliveryVars, outVars>>

\* AgentControl::spawn_agent: if headless, spawn_headless_drain
spawn_agent_drain ==
    /\ spawn_call.pc = "drain"
    /\ drains' = drains \cup {spawn_call.id}
    /\ drain_task' = [drain_task EXCEPT ![spawn_call.id] =
                          [NoDrainTask EXCEPT !.pc = "next_event"]]
    /\ spawn_call' = [spawn_call EXCEPT !.pc = "send_prompt"]
    /\ reg_op' = RegOp("spawn_headless_drain", spawn_call.id, None, "ok")
    /\ UNCHANGED <<manager_alive, minted, threads, subagents, subagent_outputs,
                   submitted, prompt_call, touched>>
    /\ UNCHANGED <<status, ever_registered, registered_now, tool_call, now>>
    /\ UNCHANGED <<chatVars, deliveryVars, outVars>>

\* mutant of spawn_agent_send_prompt: a failed prompt send takes the new
\* agent out of the registry again
spawn_agent_send_prompt_unspawn(accept) ==
    /\ spawn_call.pc = "send_prompt"
    /\ LET agent_id == spawn_call.id
           res == send_op_result(threads, agent_id, accept)
       IN  /\ subagent_outputs' =
                  IF res = "ok"
                  THEN reset_subagent_output_result(subagent_outputs, agent_id)
                  ELSE map_remove(subagent_outputs, agent_id)
           /\ subagents' = IF res = "ok" THEN subagents
                           ELSE map_remove(subagents, agent_id)
           /\ threads' = IF res = "ok" THEN threads ELSE threads \ {agent_id}
           /\ touched' = [touched EXCEPT ![agent_id] = FALSE]
           /\ submitted' = IF res = "ok"
                           THEN [submitted EXCEPT ![agent_id] = Append(@, "UserInput")]
                           ELSE submitted
           /\ reg_op' = RegOp("spawn_agent", agent_id, None, res)
    /\ spawn_call' = NoSpawnCall
    /\ UNCHANGED <<manager_alive, minted, prompt_call>>
    /\ UNCHANGED <<status, ever_registered, registered_now, drains, drain_task, tool_call, now>>
    /\ UNCHANGED <<chatVars, deliveryVars, outVars>>

\* AgentControl::spawn_agent: send_prompt(new id, prompt)? (reset_subagent_output,
\* then send_op), and the return of spawn_agent
spawn_agent_send_prompt(accept) ==
    /\ spawn_call.pc = "send_prompt"
    /\ LET agent_id == spawn_call.id
           res == send_op_result(threads, agent_id, accept)
       IN  /\ subagent_outputs' =
                  reset_subagent_output_result(subagent_outputs, agent_id)
           /\ touched' = [touched EXCEPT ![agent_id] = FALSE]
           /\ submitted' = IF res = "ok"
                           THEN [submitted EXCEPT ![agent_id] = Append(@, "UserInput")]
                           ELSE submitted
           /\ reg_op' = RegOp("spawn_agent", agent_id, None, res)
    /\ spawn_call' = NoSpawnCall
    /\ UNCHANGED <<manager_alive, minted, threads, subagents, prompt_call>>
    /\ UNCHANGED <<status, ever_registered, registered_now, drains, drain_task, tool_call, now>>
    /\ UNCHANGED <<chatVars, deliveryVars, outVars>>

\* AgentControl::get_status
get_status(agent_id) ==
    /\ reg_op' = RegOp("get_status", agent_id, None,
                       get_status_result(manager_alive, threads, status, agent_id))
    /\ QueryFrame

\* mutant of subagent_output_result: the snapshot is taken without the
\* is_subagent_of check
subagent_output_result_no_check(alive, subs, outs, parent_id, subagent_id, max_chars) ==
    IF upgrade(alive) # "ok" THEN [res |-> upgrade(alive), snapshot |-> None]
    ELSE LET s == subagent_output_snapshot_result(outs, subagent_id, max_chars)
         IN  IF s = None THEN [res |-> "ThreadNotFound", snapshot |-> None]
             ELSE [res |-> "ok", snapshot |-> s]

\* AgentControl::subagent_output: the is_subagent_of check and the snapshot
subagent_output_result(alive, subs, outs, parent_id, subagent_id, max_chars) ==
    IF upgrade(alive) # "ok" THEN [res |-> upgrade(alive), snapshot |-> None]
    ELSE IF ~is_subagent_of_result(subs, parent_id, subagent_id)
    THEN [res |-> "ThreadNotFound", snapshot |-> None]
    ELSE LET s == subagent_output_snapshot_result(outs, subagent_id, max_chars)
         IN  IF s = None THEN [res |-> "ThreadNotFound", snapshot |-> None]
             ELSE [res |-> "ok", snapshot |-> s]

\* AgentControl::subagent_output
subagent_output(parent_id, subagent_id, max_chars) ==
    /\ LET r == subagent_output_result(manager_alive, subagents, subagent_outputs,
                                       parent_id, subagent_id, max_chars)
       IN  reg_op' = RegOp("subagent_output", subagent_id,
                           [parent |-> parent_id, max_chars |-> max_chars,
                            snapshot |-> r.snapshot],
                           r.res)
    /\ QueryFrame

\* AgentControl::subagent_persona
subagent_persona(subagent_id) ==
    /\ reg_op' = IF upgrade(manager_alive) # "ok"
                 THEN RegOp("subagent_persona", subagent_id, None,
                            upgrade(manager_alive))
                 ELSE RegOp("subagent_persona", subagent_id,
                            IF subagent_id \in DOMAIN subagents
                            THEN subagents[subagent_id].persona ELSE None,
                            "ok")
    /\ QueryFrame

\* ThreadId::to_string order of the ids
SortedIds == <<"a1", "a2", "o1", "o2">>

\* left.to_string().cmp(&right.to_string()) = Less
to_string_less(left, right) ==
    \E i, j \in 1 .. Len(SortedIds) :
        /\ SortedIds[i] = left
        /\ SortedIds[j] = right
        /\ i < j

\* the orders in which iterating a HashMap with the keys S can yield them
ScanOrders(S) ==
    {s \in [1 .. Cardinality(S) -> S] : \A i, j \in DOMAIN s : s[i] = s[j] => i = j}

\* ThreadManagerState::subagents_for_parent: the entries with that parent, in
\* the order the iteration yields them
subagents_for_parent_result(subs, parent_id, scan) ==
    SelectSeq(scan, LAMBDA id : subs[id].parent_id = parent_id)

\* mutant of sort_by_to_string: the entries stay in iteration order
sort_by_to_string_unsorted(ids) == ids

RECURSIVE sort_by_to_string(_)
\* subagents.sort_by(|(left, _), (right, _)| left.to_string().cmp(&right.to_string()))
sort_by_to_string(ids) ==
    IF ids = << >> THEN << >>
    ELSE LET least == CHOOSE i \in DOMAIN ids :
                          \A j \in DOMAIN ids : ~to_string_less(ids[j], ids[i])
         IN  <<ids[least]>> \o
             sort_by_to_string(SubSeq(ids, 1, least - 1) \o
                               SubSeq(ids, least + 1, Len(ids)))

\* AgentControl::list_subagents: subagents_for_parent, the sort, and one
\* SubagentSummary per child with its status (NotFound when get_thread fails)
list_subagents_result(subs, ths, st, parent_id, scan) ==
    LET sorted == sort_by_to_string(subagents_for_parent_result(subs, parent_id, scan))
    IN  [i \in 1 .. Len(sorted) |->
            [id |-> sorted[i],
             status |-> IF get_thread_result(ths, sorted[i]) = "ok"
                        THEN st[sorted[i]] ELSE "NotFound",
             persona |-> subs[sorted[i]].persona]]

\* AgentControl::list_subagents
list_subagents(parent_id) ==
    /\ \E scan \in ScanOrders(DOMAIN subagents) :
          reg_op' = IF upgrade(manager_alive) # "ok"
                    THEN RegOp("list_subagents", parent_id, None, upgrade(manager_alive))
                    ELSE RegOp("list_subagents", parent_id,
                               list_subagents_result(subagents, threads, status,
                                                     parent_id, scan),
                               "ok")
    /\ QueryFrame

\* the AgentControl operations that are upgrade and one ThreadManagerState::send_op
control_send_op(name, thread_id, operation, accept) ==
    /\ Len(submitted[thread_id]) < MaxSubmitted
    /\ LET res == IF upgrade(manager_alive) # "ok" THEN upgrade(manager_alive)
                  ELSE send_op_result(threads, thread_id, accept)
       IN  /\ submitted' = IF res = "ok"
                           THEN [submitted EXCEPT ![thread_id] = Append(@, operation)]
                           ELSE submitted
           /\ reg_op' = RegOp(name, thread_id, None, res)
    /\ UNCHANGED <<manager_alive, minted, threads, subagents, subagent_outputs,
                   prompt_call, touched>>
    /\ UNCHANGED <<chatVars, deliveryVars, outVars, ctlVars>>

\* AgentControl::post_group_chat_message
post_group_chat_message(parent_id, accept) ==
    control_send_op("post_group_chat_message", parent_id, "GroupChatMessage", accept)

\* AgentControl::shutdown_agent
shutdown_agent(agent_id, accept) ==
    control_send_op("shutdown_agent", agent_id, "Shutdown", accept)

\* AgentControl::forget_subagent: upgrade, remove_thread, Ok(())
forget_subagent(agent_id) ==
    /\ IF upgrade(manager_alive) # "ok"
       THEN /\ reg_op' = RegOp("forget_subagent", agent_id, None,
                               upgrade(manager_alive))
            /\ UNCHANGED <<subagents, subagent_outputs, threads, registered_now>>
       ELSE /\ subagents' = map_remove(subagents, agent_id)
            /\ subagent_outputs' = map_remove(subagent_outputs, agent_id)
            /\ threads' = threads \ {agent_id}
            /\ registered_now' = [registered_now EXCEPT ![agent_id] = "none"]
            /\ reg_op' = RegOp("forget_subagent", agent_id, None, "ok")
    /\ UNCHANGED <<manager_alive, minted, submitted, prompt_call, touched>>
    /\ UNCHANGED <<status, ever_registered, spawn_call, drains, drain_task, tool_call, now>>
    /\ UNCHANGED <<chatVars, deliveryVars, outVars>>

\* the thread's own status moves with its lifecycle events: a turn starts on
\* a submitted input, a running turn ends, a submitted Shutdown is completed
thread_status_changes(thread_id, s) ==
    /\ thread_id \in minted
    /\ status[thread_id] # "Shutdown"
    /\ \/ /\ s = "Running"
          /\ status[thread_id] # "Running"
          /\ \E i \in 1 .. Len(submitted[thread_id]) :
                submitted[thread_id][i] = "UserInput"
       \/ /\ s \in {"Completed", "Errored"}
          /\ status[thread_id] = "Running"
       \/ /\ s = "Shutdown"
          /\ \E i \in 1 .. Len(submitted[thread_id]) :
                submitted[thread_id][i] = "Shutdown"
    /\ status' = [status EXCEPT ![thread_id] = s]
    /\ reg_op' = RegOp("thread_status", thread_id, None, s)
    /\ UNCHANGED <<manager_alive, minted, threads, subagents, subagent_outputs,
                   submitted, prompt_call, touched>>
    /\ UNCHANGED <<ever_registered, registered_now, spawn_call, drains, drain_task, tool_call, now>>
    /\ UNCHANGED <<chatVars, deliveryVars, outVars>>

\* spawn_headless_drain on ShutdownComplete: remove_thread(agent_id), and the
\* task ends
drain_shutdown_complete(agent_id) ==
    /\ agent_id \in drains
    /\ drain_task[agent_id].pc = "next_event"
    /\ status[agent_id] = "Shutdown"
    /\ subagents' = map_remove(subagents, agent_id)
    /\ subagent_outputs' = map_remove(subagent_outputs, agent_id)
    /\ threads' = threads \ {agent_id}
    /\ registered_now' = [registered_now EXCEPT ![agent_id] = "none"]
    /\ drains' = drains \ {agent_id}
    /\ drain_task' = [drain_task EXCEPT ![agent_id].pc = "ended"]
    /\ reg_op' = RegOp("drain_shutdown_complete", agent_id, None, "ok")
    /\ UNCHANGED <<manager_alive, minted, submitted, prompt_call, touched>>
    /\ UNCHANGED <<status, ever_registered, spawn_call, tool_call, now>>
    /\ UNCHANGED <<chatVars, deliveryVars, outVars>>

\* the subagents followed at the AgentControl level
CtlAgents == {"a1", "a2"}

\* --- spawn_agent, get_status and forget_subagent over two subagents ---

SpawnStatuses == {"Running", "Completed", "Errored"}

SpawnNext ==
    \/ \E p \in Parents : \E id \in CtlAgents : \E persona \in RegPersonas :
       \E headless \in BOOLEAN : \E spawned \in BOOLEAN : \E e \in FirstEvents :
          spawn_agent_spawn(p, id, persona, headless, spawned, e)
    \/ spawn_agent_register
    \/ spawn_agent_drain
    \/ \E accept \in BOOLEAN : spawn_agent_send_prompt(accept)
    \/ \E id \in CtlAgents : \E s \in SpawnStatuses : thread_status_changes(id, s)
    \/ \E id \in ThreadIds : get_status(id)
    \/ \E id \in CtlAgents : forget_subagent(id)
    \/ drop_manager

SpawnSpec == RegInit /\ [][SpawnNext]_vars

\* --- subagent_output over the subagents of two parents ---

AccessNext ==
    \/ \E p \in Parents : \E id \in CtlAgents : \E persona \in RegPersonas :
          spawn_agent_spawn(p, id, persona, TRUE, TRUE,
                            Event(INITIAL_SUBMIT_ID, "SessionConfigured"))
    \/ spawn_agent_register
    \/ spawn_agent_drain
    \/ spawn_agent_send_prompt(TRUE)
    \/ \E id \in drains : \E m \in Messages : record_subagent_message(id, m)
    \/ \E p \in Parents : \E id \in ThreadIds : \E max_chars \in {None, Some(1)} :
          subagent_output(p, id, max_chars)
    \/ \E id \in CtlAgents : forget_subagent(id)

AccessSpec == RegInit /\ [][AccessNext]_vars

\* --- every AgentControl operation on one subagent, with the registry going away ---

CtlStatuses == {"Running", "Completed", "Shutdown"}

CtlNext ==
    \/ \E persona \in RegPersonas : \E headless \in BOOLEAN :
          spawn_agent_spawn("o1", "a1", persona, headless, TRUE,
                            Event(INITIAL_SUBMIT_ID, "SessionConfigured"))
    \/ spawn_agent_register
    \/ spawn_agent_drain
    \/ spawn_agent_send_prompt(TRUE)
    \/ spawn_thread("o1")
    \/ \E s \in CtlStatuses : thread_status_changes("a1", s)
    \/ drain_shutdown_complete("a1")
    \/ get_status("a1")
    \/ subagent_output("o1", "a1", None)
    \/ is_subagent_of("o1", "a1")
    \/ subagent_persona("a1")
    \/ list_subagents("o1")
    \/ send_prompt_reset("a1")
    \/ send_prompt_send_op(TRUE)
    \/ post_group_chat_message("o1", TRUE)
    \/ shutdown_agent("a1", TRUE)
    \/ forget_subagent("a1")
    \/ drop_manager

CtlSpec == RegInit /\ [][CtlNext]_vars

\* the values an AgentStatus can take
AgentStatuses == {"PendingInit", "Running", "Completed", "Errored", "Shutdown",
                  "NotFound"}

\* C12: get_status(id) always answers with a status, never an error; the
\* answer is NotFound when the registry reference is dropped, when id was never
\* spawned and when id is no longer in the thread map, and otherwise it is the
\* thread's own current status.
C12_GetStatusNotFoundOrOwn ==
    [][reg_op'.name = "get_status" =>
        LET id == reg_op'.id
        IN  /\ reg_op'.res \in AgentStatuses
            /\ ~manager_alive => reg_op'.res = "NotFound"
            /\ id \notin minted => reg_op'.res = "NotFound"
            /\ id \notin threads => reg_op'.res = "NotFound"
            /\ (manager_alive /\ id \in threads) => reg_op'.res = status[id]]_vars

\* a subagent that was spawned, registered and started running is asked about
\* after it was removed from a live registry
C12_Witness ==
    /\ reg_op.name = "get_status"
    /\ reg_op.res = "NotFound"
    /\ manager_alive
    /\ reg_op.id \in minted
    /\ \E p \in Parents : <<p, reg_op.id>> \in ever_registered
    /\ status[reg_op.id] = "Running"

\* C17: the registry spawn hands a new id to its caller only in a step that
\* has inserted the handle under that id, so get(id) succeeds when the caller
\* first holds the id; a first event that is not the SessionConfigured
\* acknowledgment with the initial submit id makes the spawn fail with
\* SessionConfiguredNotFirstEvent, with the thread map unchanged.
C17_IdOnlyAfterInsert ==
    [][/\ reg_op'.name = "spawn_new_thread" =>
             /\ reg_op'.arg = Event(INITIAL_SUBMIT_ID, "SessionConfigured")
             /\ reg_op'.id \notin threads
             /\ get_thread_result(threads', reg_op'.id) = "ok"
       /\ (spawn_call.pc = "idle" /\ spawn_call'.pc # "idle") =>
             /\ reg_op'.name = "spawn_new_thread"
             /\ spawn_call'.id = reg_op'.id
       /\ (reg_op'.name = "spawn_agent" /\ spawn_call.pc = "idle"
             /\ reg_op'.res \notin {"UnsupportedOperation", "SpawnError"}) =>
             /\ reg_op'.res = "SessionConfiguredNotFirstEvent"
             /\ reg_op'.arg # Event(INITIAL_SUBMIT_ID, "SessionConfigured")
             /\ threads' = threads
             /\ get_thread_result(threads', reg_op'.id) = "ThreadNotFound"]_vars

\* a thread whose first event is a SessionConfigured with another submit id:
\* the spawn has failed and the thread is not in the map
C17_Witness ==
    /\ reg_op.name = "spawn_agent"
    /\ reg_op.res = "SessionConfiguredNotFirstEvent"
    /\ reg_op.arg = Event("1", "SessionConfigured")
    /\ reg_op.id \in minted
    /\ reg_op.id \notin threads
    /\ threads # {}

\* C18: spawn_agent registers the subagent only after the registry spawn,
\* starts the drain task (when headless) only after the registration and sends
\* the prompt last; when the prompt send fails, the step that returns the error
\* leaves the thread map and the subagent registrations as they are; when the
\* thread spawn fails, nothing is registered.
C18_SpawnAgentOrderAndFailures ==
    [][/\ reg_op'.name = "register_subagent" =>
             /\ reg_op'.id \in minted
             /\ reg_op'.id \notin drains
             /\ submitted[reg_op'.id] = << >>
       /\ reg_op'.name = "spawn_headless_drain" =>
             /\ spawn_call.headless
             /\ <<spawn_call.parent, reg_op'.id>> \in ever_registered
             /\ submitted[reg_op'.id] = << >>
       /\ (reg_op'.name = "spawn_agent" /\ spawn_call.pc = "send_prompt") =>
             /\ <<spawn_call.parent, reg_op'.id>> \in ever_registered
             /\ spawn_call.headless <=> reg_op'.id \in drains
             /\ submitted[reg_op'.id] = << >>
             /\ reg_op'.res = "ok" => submitted'[reg_op'.id] = <<"UserInput">>
             /\ reg_op'.res # "ok" =>
                   /\ UNCHANGED <<threads, subagents, submitted>>
                   /\ DOMAIN subagent_outputs' = DOMAIN subagent_outputs
       /\ (reg_op'.name = "spawn_agent" /\ spawn_call.pc = "idle") =>
             /\ reg_op'.res # "ok"
             /\ UNCHANGED <<subagents, subagent_outputs, ever_registered, drains,
                            submitted>>
             /\ reg_op'.id \notin DOMAIN subagents']_vars

\* the thread refused the prompt of a headless spawn: spawn_agent has failed,
\* and the agent is in the thread map, registered under its parent and drained
C18_Witness ==
    /\ reg_op.name = "spawn_agent"
    /\ reg_op.res = "SubmitError"
    /\ reg_op.id \in threads
    /\ is_subagent_of_result(subagents, "o2", reg_op.id)
    /\ reg_op.id \in drains

\* the AgentControl operations that resolve the registry with `?`
ControlOps == {"spawn_agent", "send_prompt", "post_group_chat_message",
               "list_subagents", "subagent_output", "subagent_persona",
               "is_subagent_of", "shutdown_agent", "forget_subagent"}

\* C13: once the registry is gone, each AgentControl operation other than
\* get_status fails with UnsupportedOperation("thread manager dropped"),
\* submits nothing to any thread and changes no state.
C13_DroppedRegistryFailsEveryOp ==
    [][(~manager_alive /\ reg_op'.name \in ControlOps) =>
        /\ reg_op'.res = "UnsupportedOperation"
        /\ UNCHANGED <<manager_alive, minted, threads, subagents, subagent_outputs,
                       submitted, prompt_call, touched>>
        /\ UNCHANGED ctlVars]_vars

\* shutdown_agent is refused for a thread that is still running after the
\* registry went away
C13_Witness ==
    /\ ~manager_alive
    /\ reg_op.name = "shutdown_agent"
    /\ reg_op.res = "UnsupportedOperation"
    /\ "a1" \in minted
    /\ status["a1"] = "Running"
    /\ submitted["a1"] # << >>

\* C14: subagent_output(parent_id, subagent_id, max_chars) succeeds only when
\* subagent_id is registered under parent_id, and then returns the snapshot of
\* that subagent's own buffer; for any other id (unknown, removed, or a child
\* of another parent) it fails with ThreadNotFound and returns no snapshot.
C14_OutputOnlyForOwnChild ==
    [][reg_op'.name = "subagent_output" =>
        LET id == reg_op'.id
            parent == reg_op'.arg.parent
        IN  /\ reg_op'.res = "ok" =>
                  /\ registered_now[id] = parent
                  /\ reg_op'.arg.snapshot =
                         Some(snapshot(subagent_outputs[id], reg_op'.arg.max_chars))
            /\ (manager_alive /\ registered_now[id] # parent) =>
                  /\ reg_op'.res = "ThreadNotFound"
                  /\ reg_op'.arg.snapshot = None]_vars

\* a parent with a child of its own asks for the output of another parent's
\* child, which has a finalized message
C14_Witness ==
    /\ reg_op.name = "subagent_output"
    /\ reg_op.res = "ThreadNotFound"
    /\ registered_now[reg_op.id] \notin {"none", reg_op.arg.parent}
    /\ subagent_outputs[reg_op.id].last_message # None
    /\ \E c \in CtlAgents : registered_now[c] = reg_op.arg.parent

\* ------------------------------------------------------------------------
\* The collab tool handlers and the wait protocol (tools/handlers/collab.rs)
\* ------------------------------------------------------------------------

\* mutant of is_terminal: a running agent counts as finished
is_terminal_running(s) == s # "PendingInit"

\* wait_for_agent: !matches!(status, AgentStatus::PendingInit | AgentStatus::Running)
is_terminal(s) == s \notin {"PendingInit", "Running"}

\* mutant of resolve_timeout_ms: the cap MAX_WAIT_TIMEOUT_MS is not applied
resolve_timeout_ms_no_cap(timeout_ms) ==
    LET t == unwrap_or(timeout_ms, DEFAULT_WAIT_TIMEOUT_MS)
    IN  IF t <= 0 THEN [ok |-> FALSE, ms |-> 0]
        ELSE [ok |-> TRUE, ms |-> t]

\* fn resolve_timeout_ms(timeout_ms: Option<i64>) -> Result<u64, FunctionCallError>
resolve_timeout_ms(timeout_ms) ==
    LET t == unwrap_or(timeout_ms, DEFAULT_WAIT_TIMEOUT_MS)
    IN  IF t <= 0 THEN [ok |-> FALSE, ms |-> 0]
        ELSE [ok |-> TRUE, ms |-> min(t, MAX_WAIT_TIMEOUT_MS)]

\* fn agent_id(id: &str): ThreadId::from_string
agent_id(id) == IF id \in ThreadIds THEN Some(id) ELSE None

\* message.trim().is_empty()
trim_is_empty(message) == \A i \in 1 .. Len(message) : message[i] = " "

\* what a tool call hands back: the target, the caller, the status it reports
ToolOp(name, id, caller, s, res) ==
    RegOp(name, id, [caller |-> caller, status |-> s], res)

\* handle_wait returns an error before wait_for_agent: the arguments it was
\* called with and the error
WaitRejected(id, caller, timeout_ms, res) ==
    RegOp("wait", id, [caller |-> caller, status |-> "none",
                       timeout_ms |-> timeout_ms], res)

\* a tool call in flight moves on and touches nothing else
ToolFrame ==
    /\ UNCHANGED <<manager_alive, minted, threads, subagents, subagent_outputs,
                   submitted, prompt_call, touched>>
    /\ UNCHANGED <<status, ever_registered, registered_now, spawn_call, drains, drain_task, now>>
    /\ UNCHANGED <<chatVars, deliveryVars, outVars>>

\* handle_close_agent up to its first return: agent_id, is_subagent_of
handle_close_agent_check(caller, target, timeout_ms) ==
    /\ tool_call.pc = "idle"
    /\ IF agent_id(target) = None
       THEN /\ reg_op' = ToolOp("close_agent", target, caller, "none", "invalid agent id")
            /\ UNCHANGED tool_call
       ELSE LET c == control_is_subagent_of(manager_alive, subagents, caller, target)
            IN  IF c = "true"
                THEN /\ tool_call' = [NoToolCall EXCEPT !.pc = "shutdown",
                                                        !.name = "close_agent",
                                                        !.caller = caller,
                                                        !.id = target,
                                                        !.timeout_ms = timeout_ms]
                     /\ reg_op' = RegOp("is_subagent_of", target, caller, c)
                ELSE /\ reg_op' = ToolOp("close_agent", target, caller, "none",
                                         IF c = "false" THEN "not found" ELSE "Fatal")
                     /\ UNCHANGED tool_call
    /\ ToolFrame

\* handle_close_agent: shutdown_agent, then resolve_timeout_ms and the deadline
\* of wait_for_agent
handle_close_agent_shutdown(accept) ==
    /\ tool_call.pc = "shutdown"
    /\ Len(submitted[tool_call.id]) < MaxSubmitted
    /\ LET id == tool_call.id
           res == IF upgrade(manager_alive) # "ok" THEN upgrade(manager_alive)
                  ELSE send_op_result(threads, id, accept)
           r == resolve_timeout_ms(tool_call.timeout_ms)
       IN  /\ submitted' = IF res = "ok"
                           THEN [submitted EXCEPT ![id] = Append(@, "Shutdown")]
                           ELSE submitted
           /\ IF res # "ok"
              THEN /\ reg_op' = ToolOp("close_agent", id, tool_call.caller, "none", "Fatal")
                   /\ tool_call' = NoToolCall
              ELSE IF ~r.ok
              THEN /\ reg_op' = ToolOp("close_agent", id, tool_call.caller, "none",
                                       "timeout_ms must be greater than zero")
                   /\ tool_call' = NoToolCall
              ELSE /\ reg_op' = RegOp("shutdown_agent", id, None, "ok")
                   /\ tool_call' = [tool_call EXCEPT !.pc = "poll",
                                                     !.deadline = now + r.ms]
    /\ UNCHANGED <<manager_alive, minted, threads, subagents, subagent_outputs,
                   prompt_call, touched>>
    /\ UNCHANGED <<status, ever_registered, registered_now, spawn_call, drains, drain_task, now>>
    /\ UNCHANGED <<chatVars, deliveryVars, outVars>>

\* handle_wait up to the loop of wait_for_agent: agent_id, resolve_timeout_ms,
\* the deadline
handle_wait_begin(caller, target, timeout_ms) ==
    /\ tool_call.pc = "idle"
    /\ LET r == resolve_timeout_ms(timeout_ms)
       IN  IF agent_id(target) = None
           THEN /\ reg_op' = WaitRejected(target, caller, timeout_ms, "invalid agent id")
                /\ UNCHANGED tool_call
           ELSE IF ~r.ok
           THEN /\ reg_op' = WaitRejected(target, caller, timeout_ms,
                                          "timeout_ms must be greater than zero")
                /\ UNCHANGED tool_call
           ELSE /\ reg_op' = RegOp("resolve_timeout_ms", target, None, "ok")
                /\ tool_call' = [NoToolCall EXCEPT !.pc = "poll",
                                                   !.name = "wait",
                                                   !.caller = caller,
                                                   !.id = target,
                                                   !.timeout_ms = timeout_ms,
                                                   !.deadline = now + r.ms]
    /\ ToolFrame

\* wait_for_agent: get_status, and the return of a status that is not
\* PendingInit or Running (to handle_wait, which returns it, or to
\* handle_close_agent, which goes on to forget_subagent)
wait_for_agent_poll ==
    /\ tool_call.pc = "poll"
    /\ LET s == get_status_result(manager_alive, threads, status, tool_call.id)
       IN  IF is_terminal(s)
           THEN IF tool_call.name = "wait"
                THEN /\ reg_op' = ToolOp("wait", tool_call.id, tool_call.caller, s, "ok")
                     /\ tool_call' = NoToolCall
                ELSE /\ reg_op' = ToolOp("wait_for_agent", tool_call.id,
                                         tool_call.caller, s, "ok")
                     /\ tool_call' = [tool_call EXCEPT !.pc = "forget",
                                                       !.polls = @ + 1,
                                                       !.last = s,
                                                       !.late = now >= tool_call.deadline]
           ELSE /\ reg_op' = ToolOp("wait_for_agent_poll", tool_call.id,
                                    tool_call.caller, s, "ok")
                /\ tool_call' = [tool_call EXCEPT !.pc = "check",
                                                  !.polls = @ + 1,
                                                  !.last = s,
                                                  !.late = now >= tool_call.deadline]
    /\ ToolFrame

\* mutant of wait_for_agent_check: the deadline is not looked at
wait_for_agent_check_no_deadline ==
    /\ tool_call.pc = "check"
    /\ reg_op' = ToolOp("wait_for_agent_sleep", tool_call.id,
                        tool_call.caller, tool_call.last, "ok")
    /\ tool_call' = [tool_call EXCEPT !.pc = "sleep",
                                      !.wake = now + POLL_INTERVAL_MS]
    /\ ToolFrame

\* wait_for_agent: Instant::now() >= deadline returns the timeout error with
\* the status just polled; otherwise sleep
wait_for_agent_check ==
    /\ tool_call.pc = "check"
    /\ IF now >= tool_call.deadline
       THEN /\ reg_op' = ToolOp(tool_call.name, tool_call.id, tool_call.caller,
                                tool_call.last, "wait timed out")
            /\ tool_call' = NoToolCall
       ELSE /\ reg_op' = ToolOp("wait_for_agent_sleep", tool_call.id,
                                tool_call.caller, tool_call.last, "ok")
            /\ tool_call' = [tool_call EXCEPT !.pc = "sleep",
                                              !.wake = now + POLL_INTERVAL_MS]
    /\ ToolFrame

\* wait_for_agent: the sleep is over
wait_for_agent_wake ==
    /\ tool_call.pc = "sleep"
    /\ now >= tool_call.wake
    /\ reg_op' = ToolOp("wait_for_agent_wake", tool_call.id, tool_call.caller,
                        tool_call.last, "ok")
    /\ tool_call' = [tool_call EXCEPT !.pc = "poll"]
    /\ ToolFrame

\* handle_close_agent: forget_subagent, and the status is returned
handle_close_agent_forget ==
    /\ tool_call.pc = "forget"
    /\ LET id == tool_call.id
       IN  IF upgrade(manager_alive) # "ok"
           THEN /\ reg_op' = ToolOp("close_agent", id, tool_call.caller, "none", "Fatal")
                /\ UNCHANGED <<subagents, subagent_outputs, threads, registered_now>>
           ELSE /\ subagents' = map_remove(subagents, id)
                /\ subagent_outputs' = map_remove(subagent_outputs, id)
                /\ threads' = threads \ {id}
                /\ registered_now' = [registered_now EXCEPT ![id] = "none"]
                /\ reg_op' = ToolOp("close_agent", id, tool_call.caller,
                                    tool_call.last, "ok")
    /\ tool_call' = NoToolCall
    /\ UNCHANGED <<manager_alive, minted, submitted, prompt_call, touched>>
    /\ UNCHANGED <<status, ever_registered, spawn_call, drains, drain_task, now>>
    /\ UNCHANGED <<chatVars, deliveryVars, outVars>>

\* handle_agent_output: agent_id, max_chars, subagent_output, get_status
handle_agent_output(caller, target, max_chars) ==
    /\ LET r == subagent_output_result(manager_alive, subagents, subagent_outputs,
                                       caller, target, max_chars)
           s == get_status_result(manager_alive, threads, status, target)
       IN  reg_op' =
             IF agent_id(target) = None
             THEN ToolOp("agent_output", target, caller, "none", "invalid agent id")
             ELSE IF max_chars = Some(0)
             THEN ToolOp("agent_output", target, caller, "none",
                         "max_chars must be greater than zero")
             ELSE IF r.res = "ThreadNotFound"
             THEN ToolOp("agent_output", target, caller, "none", "not found")
             ELSE IF r.res # "ok"
             THEN ToolOp("agent_output", target, caller, "none", "Fatal")
             ELSE RegOp("agent_output", target,
                        [caller |-> caller, status |-> s, max_chars |-> max_chars,
                         snapshot |-> r.snapshot[1]], "ok")
    /\ UNCHANGED tool_call
    /\ ToolFrame

\* mutant of handle_send_input: a subagent's target is checked as an
\* orchestrator's is, is_subagent_of(caller, target)
handle_send_input_as_parent(caller, from_subagent, target, message, accept) ==
    /\ Len(submitted[IF agent_id(target) = None THEN caller ELSE target]) < MaxSubmitted
    /\ LET c == control_is_subagent_of(manager_alive, subagents, caller, target)
           posted == IF upgrade(manager_alive) # "ok" THEN upgrade(manager_alive)
                     ELSE send_op_result(threads, target, accept)
       IN  IF trim_is_empty(message)
           THEN /\ reg_op' = ToolOp("send_input", target, caller, "none", "empty message")
                /\ UNCHANGED submitted
           ELSE IF agent_id(target) = None
           THEN /\ reg_op' = ToolOp("send_input", target, caller, "none",
                                    "invalid agent id")
                /\ UNCHANGED submitted
           ELSE IF c # "true"
           THEN /\ reg_op' = ToolOp("send_input", target, caller, "none",
                                    IF c = "false" THEN "not found" ELSE "Fatal")
                /\ UNCHANGED submitted
           ELSE IF from_subagent
           THEN /\ submitted' =
                      IF posted = "ok"
                      THEN [submitted EXCEPT ![target] = Append(@, "GroupChatMessage")]
                      ELSE submitted
                /\ reg_op' = RegOp("send_input", target,
                                   [caller |-> caller, status |-> "none",
                                    sender |-> [id |-> caller,
                                                persona |-> None]],
                                   IF posted = "ok" THEN "ok" ELSE "Fatal")
           ELSE /\ reg_op' = ToolOp("send_input", target, caller, "none", "ok")
                /\ UNCHANGED submitted
    /\ UNCHANGED <<manager_alive, minted, threads, subagents, subagent_outputs,
                   prompt_call, touched>>
    /\ UNCHANGED <<chatVars, deliveryVars, outVars, ctlVars>>

\* handle_send_input. A subagent writes to its parent: is_subagent_of(target,
\* caller), subagent_persona, post_group_chat_message(target, ..). An
\* orchestrator writes to a child: is_subagent_of(caller, target), then the
\* message goes to the caller's own session (process_group_chat_message).
handle_send_input(caller, from_subagent, target, message, accept) ==
    /\ Len(submitted[IF agent_id(target) = None THEN caller ELSE target]) < MaxSubmitted
    /\ LET c == IF from_subagent
                THEN control_is_subagent_of(manager_alive, subagents, target, caller)
                ELSE control_is_subagent_of(manager_alive, subagents, caller, target)
           posted == IF upgrade(manager_alive) # "ok" THEN upgrade(manager_alive)
                     ELSE send_op_result(threads, target, accept)
       IN  IF trim_is_empty(message)
           THEN /\ reg_op' = ToolOp("send_input", target, caller, "none", "empty message")
                /\ UNCHANGED submitted
           ELSE IF agent_id(target) = None
           THEN /\ reg_op' = ToolOp("send_input", target, caller, "none",
                                    "invalid agent id")
                /\ UNCHANGED submitted
           ELSE IF c # "true"
           THEN /\ reg_op' = ToolOp("send_input", target, caller, "none",
                                    IF c = "false" THEN "not found" ELSE "Fatal")
                /\ UNCHANGED submitted
           ELSE IF from_subagent
           THEN /\ submitted' =
                      IF posted = "ok"
                      THEN [submitted EXCEPT ![target] = Append(@, "GroupChatMessage")]
                      ELSE submitted
                /\ reg_op' = RegOp("send_input", target,
                                   [caller |-> caller, status |-> "none",
                                    sender |-> [id |-> caller,
                                                persona |-> subagents[caller].persona]],
                                   IF posted = "ok" THEN "ok" ELSE "Fatal")
           ELSE /\ reg_op' = ToolOp("send_input", target, caller, "none", "ok")
                /\ UNCHANGED submitted
    /\ UNCHANGED <<manager_alive, minted, threads, subagents, subagent_outputs,
                   prompt_call, touched>>
    /\ UNCHANGED <<chatVars, deliveryVars, outVars, ctlVars>>

\* the clock moves on
tick ==
    /\ now < MaxClock
    /\ now' = now + 1
    /\ reg_op' = RegOp("tick", "none", None, "ok")
    /\ UNCHANGED <<manager_alive, minted, threads, subagents, subagent_outputs,
                   submitted, prompt_call, touched>>
    /\ UNCHANGED <<status, ever_registered, registered_now, spawn_call, drains, drain_task,
                   tool_call>>
    /\ UNCHANGED <<chatVars, deliveryVars, outVars>>

\* the orchestrator whose tool calls are followed, the ids it names and the
\* arguments it passes
ToolCallers == {"o1"}
ToolTargets == {"a1", "not-an-id"}
ToolTimeouts == {None, Some(0), Some(1)}
ToolMessages == {<<" ">>, <<"h", "i">>}
ToolStatuses == {"Running", "Completed", "Errored", "Shutdown"}

\* --- close_agent, agent_output and send_input ---

ToolNext ==
    \/ \E p \in Parents : \E persona \in RegPersonas : \E headless \in BOOLEAN :
          spawn_agent_spawn(p, "a1", persona, headless, TRUE,
                            Event(INITIAL_SUBMIT_ID, "SessionConfigured"))
    \/ spawn_agent_register
    \/ spawn_agent_drain
    \/ spawn_agent_send_prompt(TRUE)
    \/ \E s \in ToolStatuses : thread_status_changes("a1", s)
    \/ drain_shutdown_complete("a1")
    \/ \E c \in ToolCallers : \E id \in ToolTargets : \E t \in {Some(0), Some(1)} :
          handle_close_agent_check(c, id, t)
    \/ handle_close_agent_shutdown(TRUE)
    \/ wait_for_agent_poll
    \/ wait_for_agent_check
    \/ wait_for_agent_wake
    \/ handle_close_agent_forget
    \/ \E c \in ToolCallers : \E id \in ToolTargets :
       \E max_chars \in {None, Some(0)} : handle_agent_output(c, id, max_chars)
    \/ \E c \in ToolCallers : \E id \in ToolTargets : \E m \in ToolMessages :
          handle_send_input(c, FALSE, id, m, TRUE)
    \/ \E m \in ToolMessages : handle_send_input("a1", TRUE, "o1", m, TRUE)
    \/ tick

ToolSpec == RegInit /\ [][ToolNext]_vars

\* --- wait ---

WaitNext ==
    \/ \E p \in Parents : \E persona \in RegPersonas :
          spawn_agent_spawn(p, "a1", persona, FALSE, TRUE,
                            Event(INITIAL_SUBMIT_ID, "SessionConfigured"))
    \/ spawn_agent_register
    \/ spawn_agent_send_prompt(TRUE)
    \/ \E s \in ToolStatuses : thread_status_changes("a1", s)
    \/ shutdown_agent("a1", TRUE)
    \/ forget_subagent("a1")
    \/ \E c \in ToolCallers : \E id \in ToolTargets : \E t \in ToolTimeouts :
          handle_wait_begin(c, id, t)
    \/ wait_for_agent_poll
    \/ wait_for_agent_check
    \/ wait_for_agent_wake
    \/ tick

WaitSpec == RegInit /\ [][WaitNext]_vars

\* C15: close_agent, agent_output and send_input issued by an orchestrator
\* for a target that is not its registered child are rejected in the handler's
\* first step, with "not found" (or with the complaint about an argument that
\* is checked before the id), and that step submits nothing and changes no
\* registry state; close_agent goes on to its shutdown, and the other two
\* succeed, only for a registered child of the caller.
C15_NonChildRejectedNothingDone ==
    [][/\ (/\ reg_op'.name \in {"close_agent", "agent_output", "send_input"}
           /\ reg_op'.name = "close_agent" => tool_call.pc = "idle"
           /\ manager_alive
           /\ reg_op'.arg.caller \in ToolCallers
           /\ agent_id(reg_op'.id) # None
           /\ registered_now[reg_op'.id] # reg_op'.arg.caller) =>
             /\ reg_op'.res \in {"not found", "empty message",
                                 "max_chars must be greater than zero"}
             /\ reg_op'.name = "close_agent" => reg_op'.res = "not found"
             /\ UNCHANGED <<minted, threads, subagents, subagent_outputs,
                            submitted, status, registered_now, drains, tool_call>>
       /\ (tool_call.pc = "idle" /\ tool_call'.name = "close_agent") =>
             registered_now[tool_call'.id] = tool_call'.caller
       /\ (/\ reg_op'.name \in {"agent_output", "send_input"}
           /\ reg_op'.arg.caller \in ToolCallers
           /\ reg_op'.res = "ok") =>
             registered_now[reg_op'.id] = reg_op'.arg.caller
       /\ \A id \in ThreadIds :
             (Len(submitted'[id]) > Len(submitted[id])
                /\ submitted'[id][Len(submitted'[id])] = "Shutdown") =>
                 <<tool_call.caller, id>> \in ever_registered]_vars

\* close_agent is refused for the running, prompted child of another parent
C15_Witness ==
    /\ reg_op.name = "close_agent"
    /\ reg_op.res = "not found"
    /\ registered_now[reg_op.id] = "o2"
    /\ reg_op.id \in threads
    /\ status[reg_op.id] = "Running"
    /\ submitted[reg_op.id] = <<"UserInput">>

\* C16: the wait tool does not report the status of a thread that belongs to
\* another parent: a wait that reports the status of a registered subagent, as
\* its result or in its timeout error, was asked about an id that has been
\* registered under the caller.
C16_WaitOnlyOwnChildren ==
    [][(/\ reg_op'.name = "wait"
        /\ reg_op'.res \in {"ok", "wait timed out"}
        /\ reg_op'.arg.status # "NotFound"
        /\ registered_now[reg_op'.id] # "none") =>
        <<reg_op'.arg.caller, reg_op'.id>> \in ever_registered]_vars

\* C20: wait_for_agent returns a status only from a poll that found it outside
\* {PendingInit, Running}, and does so whether or not the deadline has passed;
\* it fails with the timeout error only at or after the deadline, naming the
\* status of its last poll, which is PendingInit or Running; a poll made at or
\* after the deadline that finds PendingInit or Running is followed by the
\* timeout error.
C20_WaitReturnsTerminalOrTimesOut ==
    [][/\ (reg_op'.name = "wait" /\ reg_op'.res = "ok") =>
             /\ tool_call.pc = "poll"
             /\ reg_op'.arg.status \in {"Completed", "Errored", "Shutdown", "NotFound"}
             /\ reg_op'.arg.status =
                    get_status_result(manager_alive, threads, status, reg_op'.id)
       /\ (reg_op'.name = "wait" /\ reg_op'.res = "wait timed out") =>
             /\ tool_call.pc = "check"
             /\ now >= tool_call.deadline
             /\ reg_op'.arg.status = tool_call.last
             /\ tool_call.last \in {"PendingInit", "Running"}
       /\ (tool_call.pc = "poll" /\ tool_call' # tool_call) =>
             LET s == get_status_result(manager_alive, threads, status, tool_call.id)
             IN  IF s \in {"PendingInit", "Running"}
                 THEN /\ tool_call'.pc = "check"
                      /\ tool_call'.last = s
                      /\ tool_call'.late <=> now >= tool_call.deadline
                 ELSE /\ reg_op'.name = "wait"
                      /\ reg_op'.res = "ok"
       /\ (tool_call.pc = "check" /\ tool_call.late /\ tool_call' # tool_call) =>
             reg_op'.res = "wait timed out"]_vars

\* a wait with the default timeout has polled, slept and polled again, and
\* fails after the deadline naming Running
C20_Witness ==
    /\ reg_op.name = "wait"
    /\ reg_op.res = "wait timed out"
    /\ reg_op.arg.status = "Running"
    /\ now > DEFAULT_WAIT_TIMEOUT_MS

\* ------------------------------------------------------------------------
\* resolve_timeout_ms under handle_wait, over timeouts on both sides of zero
\* and of the cap
\* ------------------------------------------------------------------------

\* WaitArgs::timeout_ms: absent, negative, zero, small, the cap, above the cap
WideTimeouts == {None, Some(0 - 1), Some(0), Some(1),
                 Some(MAX_WAIT_TIMEOUT_MS), Some(MAX_WAIT_TIMEOUT_MS + 1)}

TimeoutNext ==
    \/ spawn_thread("a1")
    \/ \E target \in ToolTargets, timeout_ms \in WideTimeouts :
          handle_wait_begin("o1", target, timeout_ms)
    \/ wait_for_agent_poll
    \/ wait_for_agent_check
    \/ wait_for_agent_wake
    \/ tick

TimeoutSpec == RegInit /\ [][TimeoutNext]_vars

\* C21: the effective wait timeout is DEFAULT_WAIT_TIMEOUT_MS when none is
\* given and min(t, MAX_WAIT_TIMEOUT_MS) for a given t > 0, so it is always in
\* 1 .. MAX_WAIT_TIMEOUT_MS; a given t <= 0 is rejected with an error and the
\* call never reaches the polling loop.
C21_EffectiveTimeout ==
    [][/\ (tool_call.pc = "idle" /\ tool_call'.pc = "poll"
               /\ tool_call'.name = "wait") =>
            LET t == tool_call'.timeout_ms
                ms == tool_call'.deadline - now
            IN  /\ ms \in 1 .. MAX_WAIT_TIMEOUT_MS
                /\ t = None => ms = DEFAULT_WAIT_TIMEOUT_MS
                /\ t # None =>
                       /\ t[1] > 0
                       /\ ms = IF t[1] <= MAX_WAIT_TIMEOUT_MS
                               THEN t[1] ELSE MAX_WAIT_TIMEOUT_MS
       /\ (tool_call.pc = "idle" /\ reg_op'.name = "wait") =>
            /\ tool_call'.pc = "idle"
            /\ reg_op'.res \in {"invalid agent id",
                                "timeout_ms must be greater than zero"}
            /\ reg_op'.res = "timeout_ms must be greater than zero" <=>
                   /\ reg_op'.id \in ThreadIds
                   /\ reg_op'.arg.timeout_ms # None
                   /\ reg_op'.arg.timeout_ms[1] <= 0]_vars

\* a wait asked for more than the cap starts polling with the cap
C21_Witness ==
    /\ reg_op.name = "resolve_timeout_ms"
    /\ tool_call.pc = "poll"
    /\ tool_call.timeout_ms = Some(MAX_WAIT_TIMEOUT_MS + 1)
    /\ tool_call.deadline = now + MAX_WAIT_TIMEOUT_MS

\* ------------------------------------------------------------------------
\* spawn_headless_drain as a task of its own, step by step
\* ------------------------------------------------------------------------

\* the one whitespace byte the event texts use
Space == <<" ", 1>>

\* char::is_whitespace on a one-byte character
is_whitespace(b) == b[1] = " "

\* str::trim: without the leading and trailing whitespace
trim(value) ==
    LET keep == {i \in 1 .. Len(value) : ~is_whitespace(value[i])}
    IN  IF keep = {} THEN << >>
        ELSE SubSeq(value, CHOOSE i \in keep : \A j \in keep : i <= j,
                           CHOOSE i \in keep : \A j \in keep : j <= i)

\* mutant of normalize_subagent_message: the text is taken as it came
normalize_subagent_message_raw(message) == Some(message)

\* fn normalize_subagent_message(message: &str) -> Option<String>
normalize_subagent_message(message) ==
    LET trimmed == trim(message)
    IN  IF trimmed = << >> THEN None ELSE Some(trimmed)

\* fn subagent_message_from_item(item: &TurnItem) -> Option<String>: only a
\* TurnItem::AgentMessage carries one
subagent_message_from_item(item, text) ==
    IF item # "AgentMessage" THEN None ELSE normalize_subagent_message(text)

\* format!("exec begin: {command}"): the literal and the joined command
format_exec_begin(command) == <<"exec begin: ", command>>

\* an event as next_event hands it to the drain task
DrainEvent(kind, item, text) == [kind |-> kind, item |-> item, text |-> text]

\* a drain step leaves the callers' side alone
DrainFrame ==
    /\ UNCHANGED <<manager_alive, minted, prompt_call>>
    /\ UNCHANGED <<status, ever_registered, spawn_call, tool_call, now>>
    /\ UNCHANGED <<chatVars, deliveryVars, outVars>>

\* spawn_headless_drain: thread.next_event().await and the match on what it
\* returned, up to the first await of the matching arm. The agent thread hands
\* out content events once it was given an input, ShutdownComplete once it
\* has shut down, and an error when its transport breaks.
drain_next_event(subagent_id, event) ==
    /\ drain_task[subagent_id].pc = "next_event"
    /\ \/ event.kind \in {"ShutdownComplete", "Err"}
       \/ \E i \in 1 .. Len(submitted[subagent_id]) : submitted[subagent_id][i] = "UserInput"
    /\ event.kind = "ShutdownComplete" => status[subagent_id] = "Shutdown"
    /\ event.kind \in {"ItemCompleted", "AgentMessage"} =>
           drain_task[subagent_id].turn_posts < MaxTurnPosts
    /\ LET d == drain_task[subagent_id]
           item_message == subagent_message_from_item(event.item, event.text)
           agent_message == normalize_subagent_message(event.text)
           seen == d.turn_kinds \cup
                       IF event.kind = "ItemCompleted" /\ item_message # None
                       THEN {<<"ItemCompleted", item_message>>}
                       ELSE IF event.kind = "AgentMessage" /\ agent_message # None
                       THEN {<<"AgentMessage", agent_message>>}
                       ELSE {}
       IN  /\ drain_task' = [drain_task EXCEPT ![subagent_id] =
                  IF event.kind = "ItemCompleted" /\ item_message # None
                  THEN [d EXCEPT !.saw_message_item_completed = TRUE,
                                 !.message = item_message,
                                 !.pc = "record", !.turn_kinds = seen,
                                 !.turn_posts = @ + 1]
                  ELSE IF /\ event.kind = "AgentMessage"
                          /\ ~d.saw_message_item_completed
                          /\ agent_message # None
                  THEN [d EXCEPT !.message = agent_message,
                                 !.pc = "record", !.turn_kinds = seen,
                                 !.turn_posts = @ + 1]
                  ELSE IF event.kind = "AgentMessage"
                  THEN [d EXCEPT !.turn_kinds = seen]
                  ELSE IF event.kind = "TurnStarted"
                  THEN [d EXCEPT !.turn_kinds = {}, !.turn_posts = 0]
                  ELSE IF event.kind = "ShutdownComplete"
                  THEN [d EXCEPT !.pc = "unregister"]
                  ELSE IF event.kind = "Err"
                  THEN [d EXCEPT !.pc = "ended", !.failed = TRUE]
                  ELSE d]
           /\ subagent_outputs' =
                  IF event.kind = "AgentMessageDelta"
                  THEN record_subagent_delta_result(subagent_outputs, subagent_id, event.text)
                  ELSE IF event.kind = "AgentReasoningDelta"
                  THEN record_subagent_reasoning_delta_result(subagent_outputs, subagent_id,
                                                              event.text)
                  ELSE IF event.kind = "ExecCommandBegin"
                  THEN record_subagent_tool_event_result(subagent_outputs, subagent_id,
                                                         format_exec_begin(event.text))
                  ELSE subagent_outputs
           /\ touched' = IF event.kind \in {"AgentMessageDelta", "AgentReasoningDelta",
                                            "ExecCommandBegin"}
                         THEN [touched EXCEPT ![subagent_id] = TRUE]
                         ELSE touched
           /\ drains' = IF event.kind = "Err" THEN drains \ {subagent_id} ELSE drains
           /\ reg_op' = RegOp("drain_next_event", subagent_id, event, event.kind)
    /\ UNCHANGED <<threads, subagents, submitted, registered_now>>
    /\ DrainFrame

\* record_and_post_subagent_message: state.record_subagent_message
drain_record(subagent_id) ==
    /\ drain_task[subagent_id].pc = "record"
    /\ subagent_outputs' = record_subagent_message_result(
                               subagent_outputs, subagent_id, drain_task[subagent_id].message[1])
    /\ touched' = [touched EXCEPT ![subagent_id] = TRUE]
    /\ drain_task' = [drain_task EXCEPT ![subagent_id].pc = "info"]
    /\ reg_op' = RegOp("drain_record", subagent_id, drain_task[subagent_id].message, "ok")
    /\ UNCHANGED <<threads, subagents, submitted, registered_now, drains>>
    /\ DrainFrame

\* record_and_post_subagent_message: if let Some(info) = state.subagent_info
drain_info(subagent_id) ==
    /\ drain_task[subagent_id].pc = "info"
    /\ LET info == IF subagent_id \in DOMAIN subagents
                   THEN Some(subagents[subagent_id]) ELSE None
       IN  /\ drain_task' = [drain_task EXCEPT ![subagent_id] =
                  IF info = None
                  THEN [@ EXCEPT !.pc = "next_event", !.message = None]
                  ELSE [@ EXCEPT !.pc = "post", !.info = info]]
           /\ reg_op' = RegOp("drain_info", subagent_id, info,
                              IF info = None THEN "none" ELSE "some")
    /\ UNCHANGED <<threads, subagents, subagent_outputs, submitted, touched,
                   registered_now, drains>>
    /\ DrainFrame

\* mutant of drain_post: a failed send_op ends the drain task
drain_post_fail_ends(subagent_id, accept) ==
    /\ drain_task[subagent_id].pc = "post"
    /\ LET d == drain_task[subagent_id]
           parent_id == d.info[1].parent_id
           res == send_op_result(threads, parent_id, accept)
       IN  /\ res = "ok" => Len(submitted[parent_id]) < MaxSubmitted
           /\ submitted' = IF res = "ok"
                           THEN [submitted EXCEPT ![parent_id] =
                                     Append(@, "GroupChatMessage")]
                           ELSE submitted
           /\ drain_task' = [drain_task EXCEPT ![subagent_id] =
                  [d EXCEPT !.pc = IF res = "ok" THEN "next_event" ELSE "ended",
                            !.message = None, !.info = None]]
           /\ reg_op' = RegOp("drain_post", subagent_id,
                              [parent |-> parent_id, message |-> d.message,
                               sender |-> [id |-> subagent_id,
                                           persona |-> d.info[1].persona]], res)
    /\ UNCHANGED <<threads, subagents, subagent_outputs, touched,
                   registered_now, drains>>
    /\ DrainFrame

\* record_and_post_subagent_message: state.send_op(info.parent_id,
\* Op::GroupChatMessage), a failure is logged
drain_post(subagent_id, accept) ==
    /\ drain_task[subagent_id].pc = "post"
    /\ LET d == drain_task[subagent_id]
           parent_id == d.info[1].parent_id
           res == send_op_result(threads, parent_id, accept)
       IN  /\ res = "ok" => Len(submitted[parent_id]) < MaxSubmitted
           /\ submitted' = IF res = "ok"
                           THEN [submitted EXCEPT ![parent_id] =
                                     Append(@, "GroupChatMessage")]
                           ELSE submitted
           /\ drain_task' = [drain_task EXCEPT ![subagent_id] =
                  [d EXCEPT !.pc = "next_event", !.message = None, !.info = None]]
           /\ reg_op' = RegOp("drain_post", subagent_id,
                              [parent |-> parent_id, message |-> d.message,
                               sender |-> [id |-> subagent_id,
                                           persona |-> d.info[1].persona]], res)
    /\ UNCHANGED <<threads, subagents, subagent_outputs, touched,
                   registered_now, drains>>
    /\ DrainFrame

\* mutant of drain_unregister_subagents: the SubagentInfo stays in the map
drain_unregister_subagents_keep(subagent_id) ==
    /\ drain_task[subagent_id].pc = "unregister"
    /\ drain_task' = [drain_task EXCEPT ![subagent_id].pc = "unregister_outputs"]
    /\ reg_op' = RegOp("drain_unregister_subagents", subagent_id, None, "ok")
    /\ UNCHANGED <<threads, subagents, subagent_outputs, submitted, touched,
                   registered_now, drains>>
    /\ DrainFrame

\* ShutdownComplete: remove_thread, unregister_subagent: subagents.write().remove
drain_unregister_subagents(subagent_id) ==
    /\ drain_task[subagent_id].pc = "unregister"
    /\ subagents' = map_remove(subagents, subagent_id)
    /\ registered_now' = [registered_now EXCEPT ![subagent_id] = "none"]
    /\ drain_task' = [drain_task EXCEPT ![subagent_id].pc = "unregister_outputs"]
    /\ reg_op' = RegOp("drain_unregister_subagents", subagent_id, None, "ok")
    /\ UNCHANGED <<threads, subagent_outputs, submitted, touched, drains>>
    /\ DrainFrame

\* ShutdownComplete: remove_thread, unregister_subagent:
\* subagent_outputs.write().remove
drain_unregister_outputs(subagent_id) ==
    /\ drain_task[subagent_id].pc = "unregister_outputs"
    /\ subagent_outputs' = map_remove(subagent_outputs, subagent_id)
    /\ drain_task' = [drain_task EXCEPT ![subagent_id].pc = "remove_thread"]
    /\ reg_op' = RegOp("drain_unregister_outputs", subagent_id, None, "ok")
    /\ UNCHANGED <<threads, subagents, submitted, touched, registered_now, drains>>
    /\ DrainFrame

\* mutant of drain_remove_thread: the loop goes on after remove_thread
drain_remove_thread_no_break(subagent_id) ==
    /\ drain_task[subagent_id].pc = "remove_thread"
    /\ threads' = threads \ {subagent_id}
    /\ drain_task' = [drain_task EXCEPT ![subagent_id].pc = "next_event"]
    /\ reg_op' = RegOp("drain_remove_thread", subagent_id, None, "ok")
    /\ UNCHANGED <<subagents, subagent_outputs, submitted, touched, registered_now,
                   drains>>
    /\ DrainFrame

\* ShutdownComplete: remove_thread: threads.write().remove, then break: the
\* task ends
drain_remove_thread(subagent_id) ==
    /\ drain_task[subagent_id].pc = "remove_thread"
    /\ threads' = threads \ {subagent_id}
    /\ drain_task' = [drain_task EXCEPT ![subagent_id].pc = "ended"]
    /\ drains' = drains \ {subagent_id}
    /\ reg_op' = RegOp("drain_remove_thread", subagent_id, None, "ok")
    /\ UNCHANGED <<subagents, subagent_outputs, submitted, touched, registered_now>>
    /\ DrainFrame

\* every step of the drain task of subagent_id but the pull of the next event
drain_step(subagent_id) ==
    \/ drain_record(subagent_id)
    \/ drain_info(subagent_id)
    \/ \E accept \in BOOLEAN : drain_post(subagent_id, accept)
    \/ drain_unregister_subagents(subagent_id)
    \/ drain_unregister_outputs(subagent_id)
    \/ drain_remove_thread(subagent_id)

\* ------------------------------------------------------------------------
\* close_agent against the drain task of the same agent, with remove_thread
\* taken lock by lock on both sides
\* ------------------------------------------------------------------------

\* handle_close_agent: forget_subagent: upgrade, then remove_thread:
\* unregister_subagent: subagents.write().remove
handle_close_agent_forget_subagents ==
    /\ tool_call.pc = "forget"
    /\ LET id == tool_call.id
       IN  IF upgrade(manager_alive) # "ok"
           THEN /\ reg_op' = ToolOp("close_agent", id, tool_call.caller, "none", "Fatal")
                /\ tool_call' = NoToolCall
                /\ UNCHANGED <<subagents, registered_now>>
           ELSE /\ subagents' = map_remove(subagents, id)
                /\ registered_now' = [registered_now EXCEPT ![id] = "none"]
                /\ tool_call' = [tool_call EXCEPT !.pc = "forget_outputs"]
                /\ reg_op' = RegOp("forget_subagents", id, None, "ok")
    /\ UNCHANGED <<manager_alive, minted, threads, subagent_outputs, submitted,
                   prompt_call, touched>>
    /\ UNCHANGED <<status, ever_registered, spawn_call, drains, drain_task, now>>
    /\ UNCHANGED <<chatVars, deliveryVars, outVars>>

\* handle_close_agent: forget_subagent: remove_thread: unregister_subagent:
\* subagent_outputs.write().remove
handle_close_agent_forget_outputs ==
    /\ tool_call.pc = "forget_outputs"
    /\ subagent_outputs' = map_remove(subagent_outputs, tool_call.id)
    /\ tool_call' = [tool_call EXCEPT !.pc = "forget_threads"]
    /\ reg_op' = RegOp("forget_outputs", tool_call.id, None, "ok")
    /\ UNCHANGED <<manager_alive, minted, threads, subagents, submitted,
                   prompt_call, touched>>
    /\ UNCHANGED <<status, ever_registered, registered_now, spawn_call, drains,
                   drain_task, now>>
    /\ UNCHANGED <<chatVars, deliveryVars, outVars>>

\* mutant of handle_close_agent_forget_threads: the thread handle stays in
\* the map
handle_close_agent_forget_threads_keep ==
    /\ tool_call.pc = "forget_threads"
    /\ reg_op' = ToolOp("close_agent", tool_call.id, tool_call.caller,
                        tool_call.last, "ok")
    /\ tool_call' = NoToolCall
    /\ UNCHANGED <<manager_alive, minted, threads, subagents, subagent_outputs,
                   submitted, prompt_call, touched>>
    /\ UNCHANGED <<status, ever_registered, registered_now, spawn_call, drains,
                   drain_task, now>>
    /\ UNCHANGED <<chatVars, deliveryVars, outVars>>

\* handle_close_agent: forget_subagent: remove_thread: threads.write().remove,
\* and the status wait_for_agent returned is handed back
handle_close_agent_forget_threads ==
    /\ tool_call.pc = "forget_threads"
    /\ threads' = threads \ {tool_call.id}
    /\ reg_op' = ToolOp("close_agent", tool_call.id, tool_call.caller,
                        tool_call.last, "ok")
    /\ tool_call' = NoToolCall
    /\ UNCHANGED <<manager_alive, minted, subagents, subagent_outputs,
                   submitted, prompt_call, touched>>
    /\ UNCHANGED <<status, ever_registered, registered_now, spawn_call, drains,
                   drain_task, now>>
    /\ UNCHANGED <<chatVars, deliveryVars, outVars>>

\* the events the agent hands to its drain task while it is being closed
CloseEvents == {DrainEvent("AgentMessage", "none", <<Space, <<"a", 1>>>>),
                DrainEvent("ShutdownComplete", "none", << >>),
                DrainEvent("Err", "none", << >>)}

CloseStatuses == {"Running", "Completed", "Shutdown"}

CloseNext ==
    \/ \E headless \in BOOLEAN : \E persona \in RegPersonas :
          spawn_agent_spawn("o1", "a1", persona, headless, TRUE,
                            Event(INITIAL_SUBMIT_ID, "SessionConfigured"))
    \/ spawn_agent_register
    \/ spawn_agent_drain
    \/ spawn_agent_send_prompt(TRUE)
    \/ \E s \in CloseStatuses : thread_status_changes("a1", s)
    \/ \E e \in CloseEvents : drain_next_event("a1", e)
    \/ drain_step("a1")
    \/ \E t \in {None, Some(1)} : handle_close_agent_check("o1", "a1", t)
    \/ handle_close_agent_shutdown(TRUE)
    \/ wait_for_agent_poll
    \/ wait_for_agent_check
    \/ wait_for_agent_wake
    \/ handle_close_agent_forget_subagents
    \/ handle_close_agent_forget_outputs
    \/ handle_close_agent_forget_threads
    \/ tick

CloseSpec == RegInit /\ [][CloseNext]_vars

DrainEvents == {DrainEvent("ItemCompleted", "AgentMessage", <<Space, <<"a", 1>>>>),
                DrainEvent("ItemCompleted", "Reasoning", <<Space, <<"a", 1>>>>),
                DrainEvent("AgentMessage", "none", <<Space, <<"a", 1>>>>),
                DrainEvent("AgentMessage", "none", <<Space>>),
                DrainEvent("TurnStarted", "none", << >>),
                DrainEvent("ShutdownComplete", "none", << >>),
                DrainEvent("Err", "none", << >>)}

DrainNext ==
    \/ spawn_thread("o1")
    \/ \E persona \in RegPersonas :
          spawn_agent_spawn("o1", "a1", persona, TRUE, TRUE,
                            Event(INITIAL_SUBMIT_ID, "SessionConfigured"))
    \/ spawn_agent_register
    \/ spawn_agent_drain
    \/ spawn_agent_send_prompt(TRUE)
    \/ \E s \in CloseStatuses : thread_status_changes("a1", s)
    \/ shutdown_agent("a1", TRUE)
    \/ \E e \in DrainEvents : drain_next_event("a1", e)
    \/ drain_step("a1")

DrainSpec == RegInit /\ [][DrainNext]_vars

\* C23: within one turn, once the drain task has pulled both a completed
\* message item and a finalized agent-message event with the same content, it
\* has called record_and_post_subagent_message for that content exactly once,
\* whichever of the two came first.
C23_SameContentPostedOnce ==
    \A id \in ThreadIds :
        \A m \in {normalize_subagent_message(e.text) : e \in DrainEvents} :
            ({<<"ItemCompleted", m>>, <<"AgentMessage", m>>}
                 \subseteq drain_task[id].turn_kinds)
            => drain_task[id].turn_posts = 1

\* the steps of the drain task that pull an event or act on a message
DrainPulls == {"drain_next_event", "drain_record", "drain_info", "drain_post"}

\* the positions of the drain task after it received ShutdownComplete
AfterShutdownComplete == <<"unregister", "unregister_outputs", "remove_thread", "ended">>

\* C24: after the drain task received ShutdownComplete it only carries out
\* remove_thread and ends: when it ends the id is in none of the three maps,
\* and from the event on it pulls no event, updates no buffer and posts
\* nothing.
C24_ShutdownCompleteRemovesAndEnds ==
    [][\A id \in ThreadIds :
        LET d == drain_task[id]
            at(p) == CHOOSE i \in 1 .. 4 : AfterShutdownComplete[i] = p
        IN  /\ (reg_op'.name = "drain_remove_thread" /\ reg_op'.id = id) =>
                  /\ id \notin threads'
                  /\ id \notin DOMAIN subagents'
                  /\ id \notin DOMAIN subagent_outputs'
                  /\ drain_task'[id].pc = "ended"
                  /\ id \notin drains'
            /\ (d.pc \in {"unregister", "unregister_outputs", "remove_thread", "ended"}
                    /\ ~d.failed) =>
                  /\ drain_task'[id].pc \in {"unregister", "unregister_outputs",
                                             "remove_thread", "ended"}
                  /\ at(drain_task'[id].pc) \in {at(d.pc), at(d.pc) + 1}
                  /\ drain_task'[id] = [d EXCEPT !.pc = drain_task'[id].pc]
                  /\ (reg_op'.name \in DrainPulls /\ reg_op'.id = id) => reg_op' = reg_op
                  /\ id \in DOMAIN subagent_outputs' => id \in DOMAIN subagent_outputs]_vars

\* the drain task has ended on ShutdownComplete after it recorded and posted
\* a message
C24_Witness ==
    /\ reg_op.name = "drain_remove_thread"
    /\ drain_task["a1"].pc = "ended"
    /\ ~drain_task["a1"].failed
    /\ drain_task["a1"].saw_message_item_completed
    /\ \E i \in 1 .. Len(submitted["o1"]) : submitted["o1"][i] = "GroupChatMessage"

\* ------------------------------------------------------------------------
\* The status of one agent over its lifecycle events and further prompts
\* ------------------------------------------------------------------------

\* agent_status_from_event, as the tests of control.rs pin it down: the status
\* an event maps to depends on the event alone
agent_status_from_event(msg) ==
    CASE msg = "TurnStarted" -> Some("Running")
      [] msg = "TurnComplete" -> Some("Completed")
      [] msg = "Error" -> Some("Errored")
      [] msg = "TurnAborted" -> Some("Errored")
      [] msg = "ShutdownComplete" -> Some("Shutdown")
      [] OTHER -> None

\* the number of operations of one kind a thread has accepted
submitted_count(thread_id, operation) ==
    Cardinality({i \in 1 .. Len(submitted[thread_id]) :
                    submitted[thread_id][i] = operation})

\* the agent thread emits a lifecycle event and its status becomes what
\* agent_status_from_event maps the event to. The thread starts its first turn
\* on its first input and a further turn on a further input, ends a turn it is
\* running, completes a shutdown it was asked for, and emits nothing after
\* ShutdownComplete.
on_event(thread_id, msg) ==
    /\ thread_id \in minted
    /\ status[thread_id] # "Shutdown"
    /\ agent_status_from_event(msg) # None
    /\ msg = "TurnStarted" =>
           \/ /\ status[thread_id] = "PendingInit"
              /\ submitted_count(thread_id, "UserInput") >= 1
           \/ /\ status[thread_id] \in {"Completed", "Errored"}
              /\ submitted_count(thread_id, "UserInput") >= 2
    /\ msg \in {"TurnComplete", "Error", "TurnAborted"} => status[thread_id] = "Running"
    /\ msg = "ShutdownComplete" => submitted_count(thread_id, "Shutdown") >= 1
    /\ status' = [status EXCEPT ![thread_id] = agent_status_from_event(msg)[1]]
    /\ reg_op' = RegOp("on_event", thread_id, msg, status'[thread_id])
    /\ UNCHANGED <<manager_alive, minted, threads, subagents, subagent_outputs,
                   submitted, prompt_call, touched>>
    /\ UNCHANGED <<ever_registered, registered_now, spawn_call, drains, drain_task,
                   tool_call, now>>
    /\ UNCHANGED <<chatVars, deliveryVars, outVars>>

\* the lifecycle events, and one event that carries no status
LifecycleEvents == {"TurnStarted", "TurnComplete", "Error", "TurnAborted",
                    "ShutdownComplete"}

StatusNext ==
    \/ \E persona \in Personas : \E headless \in BOOLEAN :
          spawn_agent_spawn("o1", "a1", persona, headless, TRUE,
                            Event(INITIAL_SUBMIT_ID, "SessionConfigured"))
    \/ spawn_agent_register
    \/ spawn_agent_drain
    \/ spawn_agent_send_prompt(TRUE)
    \/ send_prompt_reset("a1")
    \/ send_prompt_send_op(TRUE)
    \/ shutdown_agent("a1", TRUE)
    \/ \E msg \in LifecycleEvents : on_event("a1", msg)
    \/ get_status("a1")

StatusSpec == RegInit /\ [][StatusNext]_vars

\* C25: once the status of an agent id is Completed, Errored or Shutdown, no
\* later lifecycle event takes it back to Running, the TurnStarted of a
\* further prompt to the same agent included.
C25_NoWayBackToRunning ==
    [][\A id \in ThreadIds :
        status[id] \in {"Completed", "Errored", "Shutdown"}
            => status'[id] # "Running"]_vars

\* ------------------------------------------------------------------------
\* The handles in the thread map and whether their threads still take
\* operations
\* ------------------------------------------------------------------------

\* CodexThread::submit succeeds while the agent thread is running its loop:
\* it has not completed a shutdown and its event transport has not broken
submit_accepted(thread_id) ==
    /\ status[thread_id] # "Shutdown"
    /\ ~drain_task[thread_id].failed

LiveNext ==
    \/ \E persona \in Personas : \E headless \in BOOLEAN :
          spawn_agent_spawn("o1", "a1", persona, headless, TRUE,
                            Event(INITIAL_SUBMIT_ID, "SessionConfigured"))
    \/ spawn_agent_register
    \/ spawn_agent_drain
    \/ spawn_agent_send_prompt(submit_accepted(spawn_call.id))
    \/ shutdown_agent("a1", submit_accepted("a1"))
    \/ \E msg \in LifecycleEvents : on_event("a1", msg)
    \/ \E e \in CloseEvents : drain_next_event("a1", e)
    \/ drain_step("a1")
    \/ get_thread("a1")
    \/ forget_subagent("a1")

LiveSpec == RegInit /\ [][LiveNext]_vars

\* C26: in every reachable state each id that is a key of the thread map has
\* a handle whose thread accepts submit, also after the event transport of the
\* agent failed and its drain task ended, and after an agent without a drain
\* task emitted ShutdownComplete.
C26_MapKeysAreLive ==
    \A id \in threads : submit_accepted(id)

\* --- list_subagents over the children of two parents ---

ListNext ==
    \/ \E p \in Parents : \E id \in CtlAgents : \E persona \in Personas :
          spawn_agent_spawn(p, id, persona, FALSE, TRUE,
                            Event(INITIAL_SUBMIT_ID, "SessionConfigured"))
    \/ spawn_agent_register
    \/ spawn_agent_send_prompt(TRUE)
    \/ \E id \in CtlAgents : \E msg \in {"TurnStarted", "TurnComplete"} : on_event(id, msg)
    \/ \E id \in CtlAgents : forget_subagent(id)
    \/ \E p \in Parents : list_subagents(p)

ListSpec == RegInit /\ [][ListNext]_vars

\* C27: list_subagents(parent_id) returns one summary for each subagent
\* registered under parent_id and for no other id, in increasing order of the
\* textual form of the id whatever the iteration order of the map was; a
\* child without a handle in the thread map is listed with status NotFound,
\* any other child with its thread's status.
C27_ListSubagentsExactSortedWithStatus ==
    [][(reg_op'.name = "list_subagents" /\ reg_op'.res = "ok") =>
        LET out == reg_op'.arg
            children == {id \in DOMAIN subagents : subagents[id].parent_id = reg_op'.id}
        IN  /\ {out[i].id : i \in DOMAIN out} = children
            /\ Len(out) = Cardinality(children)
            /\ \A i, j \in DOMAIN out : i < j => to_string_less(out[i].id, out[j].id)
            /\ \A i \in DOMAIN out :
                  /\ out[i].persona = subagents[out[i].id].persona
                  /\ out[i].id \notin threads => out[i].status = "NotFound"
                  /\ out[i].id \in threads => out[i].status = status[out[i].id]]_vars

\* a parent with two children is listed while the other parent has none, one
\* child running and the other registered without a thread handle
C27_Witness ==
    /\ reg_op.name = "list_subagents"
    /\ reg_op.res = "ok"
    /\ Len(reg_op.arg) = 2
    /\ reg_op.arg[1].status = "NotFound"
    /\ reg_op.arg[2].status = "Running"

\* --- agent_output: snapshots of a buffer the drain task is filling ---

\* the content events of a turn
SnapEvents == {DrainEvent("AgentMessageDelta", "none", utf8(<<"a">>)),
               DrainEvent("AgentMessageDelta", "none", utf8(<<"U">>)),
               DrainEvent("AgentReasoningDelta", "none", utf8(<<"U", "a">>)),
               DrainEvent("ExecCommandBegin", "none", utf8(<<"a">>)),
               DrainEvent("ItemCompleted", "AgentMessage", <<Space, <<"a", 1>>>>)}

\* AgentOutputArgs::max_chars: absent, zero, below, at and above the caps
SnapLimits == {None, Some(0), Some(1), Some(MAX_SUBAGENT_OUTPUT_CHARS),
               Some(MAX_SUBAGENT_OUTPUT_CHARS + 1)}

SnapNext ==
    \/ spawn_agent_spawn("o1", "a1", Some("Builder"), TRUE, TRUE,
                         Event(INITIAL_SUBMIT_ID, "SessionConfigured"))
    \/ spawn_agent_register
    \/ spawn_agent_drain
    \/ spawn_agent_send_prompt(TRUE)
    \/ \E e \in SnapEvents : drain_next_event("a1", e)
    \/ drain_record("a1")
    \/ drain_info("a1")
    \/ drain_post("a1", TRUE)
    \/ \E max_chars \in SnapLimits : handle_agent_output("o1", "a1", max_chars)

SnapSpec == RegInit /\ [][SnapNext]_vars

\* C28: a snapshot is a copy and leaves the stored buffer as it was; with
\* max_chars = n its partial and reasoning are the last min(n, length)
\* characters of the stored text, without a limit they are the whole stored
\* text, an empty text is returned as absent, and last_message and
\* tool_events are returned whole.
C28_SnapshotIsTrimmedCopy ==
    [][(reg_op'.name = "agent_output" /\ reg_op'.res = "ok") =>
        LET o == subagent_outputs[reg_op'.id]
            s == reg_op'.arg.snapshot
            n == reg_op'.arg.max_chars
            expected(text) ==
                IF text = << >> THEN None
                ELSE IF n = None THEN Some(text)
                ELSE Some(utf8(LastN(chars(text), min(n[1], chars_count(text)))))
        IN  /\ subagent_outputs' = subagent_outputs
            /\ s.partial = expected(o.partial)
            /\ s.reasoning = expected(o.reasoning)
            /\ s.last_message = o.last_message
            /\ s.tool_events = o.tool_events]_vars

\* a snapshot limited to one character of a buffer that holds two characters
\* of partial text, two of reasoning, a tool event and a finalized message
C28_Witness ==
    /\ reg_op.name = "agent_output"
    /\ reg_op.res = "ok"
    /\ reg_op.arg.max_chars = Some(1)
    /\ "a1" \in DOMAIN subagent_outputs
    /\ chars_count(subagent_outputs["a1"].partial) = 2
    /\ chars_count(subagent_outputs["a1"].reasoning) = 2
    /\ chars_count(reg_op.arg.snapshot.partial[1]) = 1
    /\ reg_op.arg.snapshot.reasoning = Some(utf8(<<"a">>))
    /\ reg_op.arg.snapshot.last_message # None
    /\ reg_op.arg.snapshot.tool_events # << >>

\* C29: register_subagent for a child that already has an output buffer
\* leaves the buffer's partial, last_message, reasoning and tool_events as
\* they were, and for a child without one it creates the empty buffer; the
\* SubagentInfo is the one just given and no other buffer changes.
C29_RegisterKeepsOrCreatesBuffer ==
    [][reg_op'.name = "register_subagent" =>
        LET id == reg_op'.id
        IN  /\ id \in DOMAIN subagent_outputs'
            /\ id \in DOMAIN subagent_outputs =>
                   subagent_outputs'[id] = subagent_outputs[id]
            /\ id \notin DOMAIN subagent_outputs =>
                   subagent_outputs'[id] = SubagentOutput_default
            /\ DOMAIN subagent_outputs' = DOMAIN subagent_outputs \cup {id}
            /\ \A j \in DOMAIN subagent_outputs :
                   j # id => subagent_outputs'[j] = subagent_outputs[j]
            /\ subagents'[id].parent_id = reg_op'.arg]_vars

\* a child is registered again, under the other parent, while its buffer
\* holds partial text, a finalized message, reasoning and a tool event
C29_Witness ==
    /\ reg_op.name = "register_subagent"
    /\ reg_op.arg = "o2"
    /\ <<"o1", reg_op.id>> \in ever_registered
    /\ reg_op.id \in DOMAIN subagent_outputs
    /\ subagent_outputs[reg_op.id].partial # << >>
    /\ subagent_outputs[reg_op.id].last_message # None
    /\ subagent_outputs[reg_op.id].reasoning # << >>
    /\ subagent_outputs[reg_op.id].tool_events # << >>

\* --- output mutators for an id whose buffer is gone ---

\* what the thread of each agent emits: a1 streams deltas, reasoning, a tool
\* event and a finalized message, a2 only a finalized message
OrphanEvents(subagent_id) ==
    IF subagent_id = "a1"
    THEN {DrainEvent("AgentMessageDelta", "none", utf8(<<"a">>)),
          DrainEvent("AgentReasoningDelta", "none", utf8(<<"a">>)),
          DrainEvent("ExecCommandBegin", "none", utf8(<<"a">>)),
          DrainEvent("ItemCompleted", "AgentMessage", <<Space, <<"a", 1>>>>)}
    ELSE {DrainEvent("ItemCompleted", "AgentMessage", <<Space, <<"a", 1>>>>)}

OrphanAgents == {"a1", "a2"}

\* two headless agents of o1 are spawned and drained; a1 is prompted again
\* and forgotten while its drain task keeps pulling events
OrphanNext ==
    \/ \E id \in OrphanAgents :
           spawn_agent_spawn("o1", id, Some("Builder"), TRUE, TRUE,
                             Event(INITIAL_SUBMIT_ID, "SessionConfigured"))
    \/ spawn_agent_register
    \/ spawn_agent_drain
    \/ spawn_agent_send_prompt(TRUE)
    \/ \E id \in OrphanAgents : \E e \in OrphanEvents(id) : drain_next_event(id, e)
    \/ \E id \in OrphanAgents : drain_record(id)
    \/ \E id \in OrphanAgents : drain_info(id)
    \/ \E id \in OrphanAgents : drain_post(id, TRUE)
    \/ forget_subagent("a1")
    \/ send_prompt_reset("a1")
    \/ send_prompt_send_op(TRUE)

OrphanSpec == RegInit /\ [][OrphanNext]_vars

\* C30: a step that runs an output mutator (delta, reasoning delta, tool
\* event, finalized message, reset for a new prompt) for an id without an
\* output buffer leaves the whole output map as it was, and for any id it
\* creates no buffer and changes no other id's buffer; so an update of the
\* drain task that arrives after forget_subagent does not bring the buffer
\* back.
C30_MutatorWithoutBufferIsNoOp ==
    [][\A id \in ThreadIds :
        (/\ reg_op'.id = id
         /\ \/ reg_op'.name \in {"drain_record", "reset_subagent_output"}
            \/ /\ reg_op'.name = "drain_next_event"
               /\ reg_op'.res \in {"AgentMessageDelta", "AgentReasoningDelta",
                                   "ExecCommandBegin"})
        => /\ id \notin DOMAIN subagent_outputs => subagent_outputs' = subagent_outputs
           /\ DOMAIN subagent_outputs' = DOMAIN subagent_outputs
           /\ \A j \in DOMAIN subagent_outputs :
                  j # id => subagent_outputs'[j] = subagent_outputs[j]]_vars

\* the drain task of a1 records a finalized message after a1 was forgotten,
\* while a2 still has a buffer with a finalized message
C30_Witness ==
    /\ reg_op.name = "drain_record"
    /\ reg_op.id = "a1"
    /\ <<"o1", "a1">> \in ever_registered
    /\ "a1" \notin DOMAIN subagent_outputs
    /\ "a2" \in DOMAIN subagent_outputs
    /\ subagent_outputs["a2"].last_message # None

\* --- register_subagent lock by lock, against remove_thread and readers ---

\* AgentControl::spawn_agent: register_subagent up to its second await:
\* subagents.write().insert(subagent_id, SubagentInfo)
spawn_agent_register_info ==
    /\ spawn_call.pc = "register"
    /\ subagents' = map_insert(subagents, spawn_call.id,
                               [parent_id |-> spawn_call.parent,
                                persona |-> spawn_call.persona])
    /\ ever_registered' = ever_registered \cup {<<spawn_call.parent, spawn_call.id>>}
    /\ registered_now' = [registered_now EXCEPT ![spawn_call.id] = spawn_call.parent]
    /\ spawn_call' = [spawn_call EXCEPT !.pc = "register_output"]
    /\ reg_op' = RegOp("register_subagent_info", spawn_call.id, spawn_call.parent, "ok")
    /\ UNCHANGED <<manager_alive, minted, threads, subagent_outputs, submitted,
                   prompt_call, touched>>
    /\ UNCHANGED <<status, drains, drain_task, tool_call, now>>
    /\ UNCHANGED <<chatVars, deliveryVars, outVars>>

\* register_subagent, the rest:
\* subagent_outputs.write().entry(subagent_id).or_insert_with(default)
spawn_agent_register_output ==
    /\ spawn_call.pc = "register_output"
    /\ subagent_outputs' =
           map_or_insert(subagent_outputs, spawn_call.id, SubagentOutput_default)
    /\ spawn_call' = [spawn_call EXCEPT
                        !.pc = IF spawn_call.headless THEN "drain" ELSE "send_prompt"]
    /\ reg_op' = RegOp("register_subagent", spawn_call.id, spawn_call.parent, "ok")
    /\ UNCHANGED <<manager_alive, minted, threads, subagents, submitted,
                   prompt_call, touched>>
    /\ UNCHANGED <<status, ever_registered, registered_now, drains, drain_task,
                   tool_call, now>>
    /\ UNCHANGED <<chatVars, deliveryVars, outVars>>

\* o1 spawns a1 while it reads a1's output and closes a1; every write lock
\* of register_subagent and of remove_thread is a step of its own
PairNext ==
    \/ spawn_agent_spawn("o1", "a1", Some("Builder"), FALSE, TRUE,
                         Event(INITIAL_SUBMIT_ID, "SessionConfigured"))
    \/ spawn_agent_register_info
    \/ spawn_agent_register_output
    \/ spawn_agent_send_prompt(TRUE)
    \/ \E s \in CloseStatuses : thread_status_changes("a1", s)
    \/ subagent_output("o1", "a1", None)
    \/ handle_close_agent_check("o1", "a1", Some(1))
    \/ handle_close_agent_shutdown(TRUE)
    \/ wait_for_agent_poll
    \/ wait_for_agent_check
    \/ wait_for_agent_wake
    \/ handle_close_agent_forget_subagents
    \/ handle_close_agent_forget_outputs
    \/ handle_close_agent_forget_threads
    \/ tick

PairSpec == RegInit /\ [][PairNext]_vars

\* C31: in every reachable state an id has a SubagentInfo entry exactly when
\* it has a SubagentOutput entry.
C31_InfoExactlyWithOutput ==
    DOMAIN subagents = DOMAIN subagent_outputs

\* --- the turns of one headless subagent that is prompted again ---

\* the finalized-message events of a turn and the start of a turn
TurnEvents == {DrainEvent("ItemCompleted", "AgentMessage", <<Space, <<"a", 1>>>>),
               DrainEvent("AgentMessage", "none", <<Space, <<"a", 1>>>>),
               DrainEvent("AgentMessage", "none", <<Space>>),
               DrainEvent("TurnStarted", "none", << >>)}

\* a1 is spawned headless under o1 and prompted again; its thread starts a
\* turn only on a prompt whose reset no event has followed yet
TurnNext ==
    \/ spawn_thread("o1")
    \/ spawn_agent_spawn("o1", "a1", Some("Builder"), TRUE, TRUE,
                         Event(INITIAL_SUBMIT_ID, "SessionConfigured"))
    \/ spawn_agent_register
    \/ spawn_agent_drain
    \/ spawn_agent_send_prompt(TRUE)
    \/ send_prompt_reset("a1")
    \/ send_prompt_send_op(TRUE)
    \/ \E e \in TurnEvents :
          /\ e.kind = "TurnStarted" => (~touched["a1"] /\ prompt_call.pc = "idle")
          /\ drain_next_event("a1", e)
    \/ drain_record("a1")
    \/ drain_info("a1")
    \/ \E accept \in BOOLEAN : drain_post("a1", accept)

TurnSpec == RegInit /\ [][TurnNext]_vars

\* C32: a finalized agent-message event with non-empty trimmed text that the
\* drain task pulls in a turn in which no completed message item has arrived
\* is taken up for record_and_post_subagent_message, whatever earlier turns
\* delivered.
C32_PrecedenceScopedToTurn ==
    [][\A id \in ThreadIds :
        (/\ reg_op'.name = "drain_next_event"
         /\ reg_op'.id = id
         /\ reg_op'.res = "AgentMessage"
         /\ normalize_subagent_message(reg_op'.arg.text) # None
         /\ ~\E k \in drain_task[id].turn_kinds : k[1] = "ItemCompleted")
        => /\ drain_task'[id].pc = "record"
           /\ drain_task'[id].message = normalize_subagent_message(reg_op'.arg.text)]_vars

\* --- record_and_post_subagent_message for one headless subagent ---

\* message events whose text has whitespace around it, inside it, or is all
\* whitespace or empty, a completed item that carries no message, a
\* streamed delta, and the failure of next_event
PostEvents ==
    {DrainEvent("ItemCompleted", "AgentMessage", <<Space, <<"a", 1>>, Space>>),
     DrainEvent("ItemCompleted", "AgentMessage", <<Space>>),
     DrainEvent("ItemCompleted", "Reasoning", <<<<"a", 1>>>>),
     DrainEvent("AgentMessage", "none", <<<<"a", 1>>, Space, <<"a", 1>>>>),
     DrainEvent("AgentMessage", "none", << >>),
     DrainEvent("AgentMessageDelta", "none", <<<<"a", 1>>>>),
     DrainEvent("Err", "none", << >>)}

PostPersonas == {None, Some("Builder")}

\* a1 is spawned headless under o1, its drain task takes up messages, and o1
\* may forget a1 at any point
PostNext ==
    \/ spawn_thread("o1")
    \/ \E persona \in PostPersonas :
          spawn_agent_spawn("o1", "a1", persona, TRUE, TRUE,
                            Event(INITIAL_SUBMIT_ID, "SessionConfigured"))
    \/ spawn_agent_register
    \/ spawn_agent_drain
    \/ spawn_agent_send_prompt(TRUE)
    \/ \E e \in PostEvents : drain_next_event("a1", e)
    \/ drain_record("a1")
    \/ drain_info("a1")
    \/ \E accept \in BOOLEAN : drain_post("a1", accept)
    \/ forget_subagent("a1")

PostSpec == RegInit /\ [][PostNext]_vars

\* C33: a message event whose trimmed text is empty is dropped; one whose
\* trimmed text is not empty is taken up with that text, which is first set
\* as the subagent's last_message (partial cleared) and only then submitted
\* once, as a GroupChatMessage with sender SubAgent{id, persona}, to the
\* thread of the parent the SubagentInfo names; without a SubagentInfo
\* nothing is submitted; no other step of the drain task submits anything.
C33_RecordThenPostToParent ==
    [][\A id \in ThreadIds :
        LET d == drain_task[id]
            e == reg_op'.arg
            pulls == reg_op'.name = "drain_next_event" /\ reg_op'.id = id
            bears == \/ e.kind = "ItemCompleted" /\ e.item = "AgentMessage"
                     \/ e.kind = "AgentMessage" /\ ~d.saw_message_item_completed
            blank == \A i \in 1 .. Len(e.text) : is_whitespace(e.text[i])
        IN  /\ (pulls /\ e.kind \in {"ItemCompleted", "AgentMessage"} /\ (blank \/ ~bears))
                  => /\ drain_task'[id].pc = "next_event"
                     /\ subagent_outputs' = subagent_outputs
                     /\ submitted' = submitted
            /\ (pulls /\ bears /\ ~blank)
                  => /\ drain_task'[id].pc = "record"
                     /\ drain_task'[id].message # None
                     /\ LET m == drain_task'[id].message[1]
                        IN  /\ m # << >>
                            /\ ~is_whitespace(m[1])
                            /\ ~is_whitespace(m[Len(m)])
                            /\ \E i \in 1 .. Len(e.text) :
                                   m = SubSeq(e.text, i, i + Len(m) - 1)
                     /\ submitted' = submitted
            /\ (reg_op'.name = "drain_record" /\ reg_op'.id = id)
                  => /\ id \in DOMAIN subagent_outputs =>
                            /\ subagent_outputs'[id].last_message = d.message
                            /\ subagent_outputs'[id].partial = << >>
                     /\ drain_task'[id].pc = "info"
                     /\ drain_task'[id].message = d.message
                     /\ submitted' = submitted
            /\ (reg_op'.name = "drain_info" /\ reg_op'.id = id)
                  => /\ submitted' = submitted
                     /\ IF id \in DOMAIN subagents
                        THEN /\ drain_task'[id].pc = "post"
                             /\ drain_task'[id].info = Some(subagents[id])
                             /\ drain_task'[id].message = d.message
                        ELSE drain_task'[id].pc = "next_event"
            /\ (reg_op'.name = "drain_post" /\ reg_op'.id = id)
                  => /\ e.parent = d.info[1].parent_id
                     /\ e.message = d.message
                     /\ e.sender = [id |-> id, persona |-> d.info[1].persona]
                     /\ reg_op'.res = "ok" =>
                            submitted' = [submitted EXCEPT ![e.parent] =
                                              Append(@, "GroupChatMessage")]
                     /\ reg_op'.res # "ok" => submitted' = submitted
                     /\ drain_task'[id].pc = "next_event"]_vars

\* the drain task of a1, registered under o1 as Builder, has recorded the
\* trimmed text of a message and has just submitted it to o1's thread
C33_Witness ==
    /\ reg_op.name = "drain_post"
    /\ reg_op.id = "a1"
    /\ reg_op.res = "ok"
    /\ reg_op.arg.parent = "o1"
    /\ reg_op.arg.sender = [id |-> "a1", persona |-> Some("Builder")]
    /\ reg_op.arg.message = Some(<<<<"a", 1>>>>)
    /\ "a1" \in DOMAIN subagent_outputs
    /\ subagent_outputs["a1"].last_message = Some(<<<<"a", 1>>>>)
    /\ subagent_outputs["a1"].partial = << >>
    /\ submitted["o1"] = <<"GroupChatMessage">>

\* C34: a send_op of the drain task that fails (the parent's thread is not
\* in the map, or submit fails) changes nothing: the recorded last_message
\* stays and the task is back at next_event; a failed next_event ends the
\* task in that step with the thread map, the SubagentInfo map and the
\* output map as they were; an ended task takes no further step.
C34_DrainFailuresAbsorbed ==
    [][\A id \in ThreadIds :
        LET d == drain_task[id]
        IN  /\ (reg_op'.name = "drain_post" /\ reg_op'.id = id /\ reg_op'.res # "ok")
                  => /\ subagent_outputs' = subagent_outputs
                     /\ id \in DOMAIN subagent_outputs =>
                            subagent_outputs[id].last_message = d.message
                     /\ submitted' = submitted
                     /\ drain_task'[id].pc = "next_event"
                     /\ ~drain_task'[id].failed
                     /\ id \in drains'
            /\ (reg_op'.name = "drain_next_event" /\ reg_op'.id = id
                    /\ reg_op'.res = "Err")
                  => /\ drain_task'[id].pc = "ended"
                     /\ id \notin drains'
                     /\ threads' = threads
                     /\ subagents' = subagents
                     /\ subagent_outputs' = subagent_outputs
                     /\ submitted' = submitted
            /\ d.pc = "ended" => drain_task'[id] = d]_vars

\* the post of a recorded message to o1 has just failed (o1's thread refused
\* it, or o1 has no thread in the map); a1 keeps the message and its drain
\* task is ready for the next event
C34_Witness ==
    /\ reg_op.name = "drain_post"
    /\ reg_op.id = "a1"
    /\ reg_op.res # "ok"
    /\ "a1" \in DOMAIN subagent_outputs
    /\ subagent_outputs["a1"].last_message = reg_op.arg.message
    /\ drain_task["a1"].pc = "next_event"

\* --- send_prompt against the drain task of its target ---

ResetTurns == 1 .. 2

\* the character the events of a turn carry: it tells the turns apart
TurnChar(k) == IF k = 1 THEN <<"a", 1>> ELSE <<"b", 1>>

\* the buffer holds something an event of turn k put there
HoldsTurn(o, k) ==
    \/ \E i \in 1 .. Len(o.partial) : o.partial[i] = TurnChar(k)
    \/ \E i \in 1 .. Len(o.reasoning) : o.reasoning[i] = TurnChar(k)
    \/ \E i \in 1 .. Len(o.tool_events) :
           o.tool_events[i] = format_exec_begin(<<TurnChar(k)>>)

ResetKinds == {"AgentMessageDelta", "AgentReasoningDelta", "ExecCommandBegin"}

\* a1 is spawned headless with its first prompt and prompted again; its
\* thread emits the events of turn k only after the k-th input reached it,
\* and the drain task may pull the events of an earlier turn late
ResetNext ==
    \/ spawn_agent_spawn("o1", "a1", Some("Builder"), TRUE, TRUE,
                         Event(INITIAL_SUBMIT_ID, "SessionConfigured"))
    \/ spawn_agent_register
    \/ spawn_agent_drain
    \/ spawn_agent_send_prompt(TRUE)
    \/ send_prompt_reset("a1")
    \/ \E accept \in BOOLEAN : send_prompt_send_op(accept)
    \/ \E k \in ResetTurns : \E kind \in ResetKinds :
          /\ submitted_count("a1", "UserInput") >= k
          /\ drain_next_event("a1", DrainEvent(kind, "none", <<TurnChar(k)>>))

ResetSpec == RegInit /\ [][ResetNext]_vars

\* C35: the buffer holds content of turn k only after the k-th input was
\* submitted, and a step of send_prompt that takes content out of the target's
\* buffer has that call's submission still ahead of it; so what send_prompt
\* erases is never an update caused by the input it submits.
C35_ResetBeforeSubmit ==
    /\ [][\A id \in ThreadIds : \A k \in ResetTurns :
            (/\ reg_op'.name \in {"reset_subagent_output", "send_prompt", "send_op"}
             /\ id \in DOMAIN subagent_outputs
             /\ id \in DOMAIN subagent_outputs'
             /\ HoldsTurn(subagent_outputs[id], k)
             /\ ~HoldsTurn(subagent_outputs'[id], k))
            => /\ reg_op'.name = "reset_subagent_output"
               /\ prompt_call'.pc = "send_op"
               /\ prompt_call'.id = id
               /\ submitted' = submitted]_vars
    /\ [](\A id \in DOMAIN subagent_outputs : \A k \in ResetTurns :
            HoldsTurn(subagent_outputs[id], k) =>
                submitted_count(id, "UserInput") >= k)

\* the second prompt has reset a1's buffer and was submitted, and the drain
\* task has put content of the second turn into the emptied buffer
C35_Witness ==
    /\ reg_op.name = "drain_next_event"
    /\ reg_op.id = "a1"
    /\ submitted_count("a1", "UserInput") = 2
    /\ prompt_call.pc = "idle"
    /\ "a1" \in DOMAIN subagent_outputs
    /\ HoldsTurn(subagent_outputs["a1"], 2)
    /\ ~HoldsTurn(subagent_outputs["a1"], 1)

\* --- shutdown of a headless subagent, with a fairly scheduled drain task ---

ShutdownCompleteEvent == DrainEvent("ShutdownComplete", "none", << >>)

\* what the thread hands to the drain task around its shutdown
ShutEvents == {DrainEvent("ItemCompleted", "AgentMessage", <<Space, <<"a", 1>>>>),
               DrainEvent("AgentMessageDelta", "none", <<<<"a", 1>>>>),
               ShutdownCompleteEvent,
               DrainEvent("Err", "none", << >>)}

\* a1 is spawned headless under o1 and shut down; nobody calls forget_subagent
ShutNext ==
    \/ spawn_thread("o1")
    \/ spawn_agent_spawn("o1", "a1", Some("Builder"), TRUE, TRUE,
                         Event(INITIAL_SUBMIT_ID, "SessionConfigured"))
    \/ spawn_agent_register
    \/ spawn_agent_drain
    \/ spawn_agent_send_prompt(TRUE)
    \/ \E accept \in BOOLEAN : shutdown_agent("a1", accept)
    \/ \E s \in CloseStatuses : thread_status_changes("a1", s)
    \/ \E e \in ShutEvents : drain_next_event("a1", e)
    \/ drain_step("a1")

\* the spawned drain task is scheduled again and again: a step it can take
\* is taken, and next_event, whose queue before ShutdownComplete is finite,
\* gets to hand out the ShutdownComplete the thread has emitted
ShutFairness ==
    /\ WF_vars(drain_step("a1"))
    /\ SF_vars(drain_next_event("a1", ShutdownCompleteEvent))

ShutSpec == RegInit /\ [][ShutNext]_vars /\ ShutFairness

\* C36: once a headless subagent's thread has shut down on a submitted
\* Shutdown and its drain task runs, then, unless next_event fails first,
\* the id is eventually in neither the thread map (get_status: NotFound) nor
\* the SubagentInfo map (is_subagent_of: false) and the drain task has ended.
C36_ShutdownEventuallyDeregisters ==
    \A id \in ThreadIds :
        (status[id] = "Shutdown" /\ drain_task[id].pc # "none")
        ~> \/ /\ id \notin threads
              /\ id \notin DOMAIN subagents
              /\ get_status_result(manager_alive, threads, status, id) = "NotFound"
              /\ drain_task[id].pc = "ended"
           \/ drain_task[id].failed

\* the drain task has removed a1 after the thread shut down
C36_Witness ==
    /\ status["a1"] = "Shutdown"
    /\ reg_op.name = "drain_remove_thread"
    /\ drain_task["a1"].pc = "ended"
    /\ ~drain_task["a1"].failed
    /\ "a1" \notin threads
    /\ "a1" \notin DOMAIN subagents
    /\ <<"o1", "a1">> \in ever_registered
    /\ \E i \in 1 .. Len(submitted["a1"]) : submitted["a1"][i] = "Shutdown"

\* --- wait_for_agent to its return, with time passing ---

PollTimeouts == {None, Some(1), Some(2), Some(MAX_WAIT_TIMEOUT_MS)}

\* o1 waits for a1, whose status moves as it likes or not at all; a wait
\* begins only where the clock still covers its deadline and its last sleep
PollNext ==
    \/ spawn_agent_spawn("o1", "a1", Some("Builder"), FALSE, TRUE,
                         Event(INITIAL_SUBMIT_ID, "SessionConfigured"))
    \/ spawn_agent_register
    \/ spawn_agent_send_prompt(TRUE)
    \/ \E s \in ToolStatuses : thread_status_changes("a1", s)
    \/ \E t \in PollTimeouts :
          /\ now + resolve_timeout_ms(t).ms + POLL_INTERVAL_MS <= MaxClock
          /\ handle_wait_begin("o1", "a1", t)
    \/ wait_for_agent_poll
    \/ wait_for_agent_check
    \/ wait_for_agent_wake
    \/ tick

\* time passes, and the handler's future is polled again whenever it can go on
PollFairness ==
    /\ WF_vars(tick)
    /\ WF_vars(wait_for_agent_poll)
    /\ WF_vars(wait_for_agent_check)
    /\ WF_vars(wait_for_agent_wake)

PollSpec == RegInit /\ [][PollNext]_vars /\ PollFairness

\* the polls a wait has made when the step that returns from it is taken
PollsAtReturn ==
    IF tool_call.pc = "poll" THEN tool_call.polls + 1 ELSE tool_call.polls

SendCallers == {"a1", "a2"}
SendTargets == {"o1", "o2", "a1", "a2", "not-an-id"}

\* a1 is spawned under o1, a2 under o1 (a sibling of a1) or under a1 (its
\* child); both call send_input
SendNext ==
    \/ spawn_thread("o1")
    \/ \E pair \in {<<"o1", "a1">>, <<"o1", "a2">>, <<"a1", "a2">>} :
       \E persona \in PostPersonas :
          spawn_agent_spawn(pair[1], pair[2], persona, FALSE, TRUE,
                            Event(INITIAL_SUBMIT_ID, "SessionConfigured"))
    \/ spawn_agent_register
    \/ spawn_agent_send_prompt(TRUE)
    \/ \E c \in SendCallers : \E target \in SendTargets : \E m \in ToolMessages :
       \E accept \in BOOLEAN :
          /\ c \in minted
          /\ handle_send_input(c, TRUE, target, m, accept)

SendSpec == RegInit /\ [][SendNext]_vars

\* C38: a send_input of a subagent succeeds only for the id of the parent it
\* is registered under, and then exactly one GroupChatMessage, with sender
\* SubAgent{the caller's id, its persona}, is submitted to that parent's
\* thread; for any other id that parses (a sibling, its own child, itself, an
\* id nobody has) a non-empty message is rejected as not found; whenever the
\* call does not succeed nothing is submitted.
C38_SubagentWritesOnlyToParent ==
    [][(reg_op'.name = "send_input" /\ reg_op'.arg.caller \in SendCallers) =>
        LET c == reg_op'.arg.caller
            target == reg_op'.id
            is_parent == /\ c \in DOMAIN subagents
                         /\ subagents[c].parent_id = target
        IN  /\ reg_op'.res = "ok" =>
                  /\ is_parent
                  /\ submitted' = [submitted EXCEPT ![target] =
                                       Append(@, "GroupChatMessage")]
                  /\ reg_op'.arg.sender = [id |-> c, persona |-> subagents[c].persona]
            /\ reg_op'.res # "ok" => submitted' = submitted
            /\ (~is_parent /\ reg_op'.res \notin {"empty message", "invalid agent id"})
                  => reg_op'.res = "not found"
            /\ subagents' = subagents
            /\ threads' = threads]_vars

\* a1, registered under o1 as Builder while a2 is its child, has written to o1
C38_Witness ==
    /\ reg_op.name = "send_input"
    /\ reg_op.res = "ok"
    /\ reg_op.id = "o1"
    /\ reg_op.arg.caller = "a1"
    /\ reg_op.arg.sender = [id |-> "a1", persona |-> Some("Builder")]
    /\ "a2" \in DOMAIN subagents
    /\ subagents["a2"].parent_id = "a1"
    /\ submitted["o1"] = <<"GroupChatMessage">>

\* --- close_agent rejected for its timeout ---

\* C39: a close_agent that is rejected because timeout_ms is not positive
\* has submitted nothing to the target and leaves the registry as it was.
C39_RejectedCloseHasNoEffect ==
    [][(/\ reg_op'.name = "close_agent"
        /\ reg_op'.res = "timeout_ms must be greater than zero")
        => /\ submitted' = submitted
           /\ threads' = threads
           /\ subagents' = subagents
           /\ subagent_outputs' = subagent_outputs]_vars

\* --- thread handles against SubagentInfo and output buffers ---

\* C40: in every reachable state every id with a SubagentInfo or an output
\* buffer has a handle in the thread map.
C40_RegisteredIdsHaveThreads ==
    (DOMAIN subagents \cup DOMAIN subagent_outputs) \subseteq threads

====
